---- MODULE Spec2Model ----
(***************************************************************************)
(* Model of the BLE session layer of the VeraShield companion app:         *)
(* MachharBluetoothServiceImpl in src/src/lib/bluetooth.ts (the revision   *)
(* at lines 507-1066, the one with read retries and staged MTU requests).  *)
(*                                                                         *)
(* The service is a singleton driven from a single JavaScript thread.      *)
(* Async methods interleave only at their await points, so every action    *)
(* below is one synchronous segment of a method: from the resolution of    *)
(* the promise it waits on to the next await (or to its return/throw).     *)
(* Procs are the concurrently outstanding calls made by UI components      *)
(* (timers, effects and button handlers call the core directly).           *)
(* The radio (BleClient) is the environment: it resolves or rejects each   *)
(* request, drops links, and delivers disconnect callbacks.                *)
(***************************************************************************)
EXTENDS Integers, Sequences, FiniteSets, TLC

(***************************************************************************)
(* Bounds of the model.                                                    *)
(***************************************************************************)
NumProcs == 2
MaxCalls == 2
MaxRecords == 3

Procs == 1..NumProcs
Devices == {"A", "B"}

(* Callbacks passed to onConnectionChange: one that returns, one that throws. *)
Subscribers == {"quiet", "throwing"}
Throws(cb) == cb = "throwing"

(***************************************************************************)
(* Program constants.                                                      *)
(***************************************************************************)
NoDevice == "null"
Undefined == -1
DefaultMtu == 23
MtuFirstRequest == 517
MtuSecondRequest == 247
MinPayloadLimit == 20
(* A loop that allows one attempt more. *)
maxAttemptsOneMore == 4 + 1
maxAttempts == 4

(* Values BleClient.getMtu may report after a request was granted. *)
MtuGrants == {185}

(***************************************************************************)
(* Error messages, as sequences of words.  String.includes is modelled by  *)
(* Includes on the lower-cased word sequence.                              *)
(***************************************************************************)
ErrDeviceNotConnected == <<"Device", "not", "connected">>
ErrServiceNotFound == <<"Machhar", "service", "not", "found", "on", "device">>
ErrConnectTimeout == <<"BLE", "connect", "timed", "out", "after", "15000ms">>
ErrScheduleTooLarge == <<"Schedule", "too", "large", "for", "current", "MTU">>
ErrNullDeref == <<"Cannot", "read", "properties", "of", "null">>
ErrTime7 == <<"time7", "must", "be", "array", "of", "7", "bytes">>
ErrEntryTime7 == <<"entry", "time7", "must", "be", "7", "bytes">>
NoError == <<>>

(* Rejections the radio stack produces. *)
RadioDisconnected == <<"Device", "disconnected">>
RadioNotConnected == <<"Not", "connected", "to", "device">>
RadioGatt133 == <<"GATT", "133">>
RadioBusy == <<"Characteristic", "busy">>
RadioErrors == {RadioDisconnected, RadioNotConnected, RadioGatt133, RadioBusy}
RadioConnectFailed == <<"Connection", "failed">>

LowerWord(w) ==
    CASE w = "Device" -> "device"
      [] w = "Not" -> "not"
      [] w = "GATT" -> "gatt"
      [] w = "Characteristic" -> "characteristic"
      [] w = "Cannot" -> "cannot"
      [] w = "Machhar" -> "machhar"
      [] w = "BLE" -> "ble"
      [] w = "Schedule" -> "schedule"
      [] w = "MTU" -> "mtu"
      [] OTHER -> w

ToLowerCase(m) == [i \in 1..Len(m) |-> LowerWord(m[i])]

Includes(m, needle) ==
    \E i \in 0..(Len(m) - Len(needle)) : SubSeq(m, i + 1, i + Len(needle)) = needle

(* A classifier that does not know GATT status 133. *)
looksDisconnectedNoGatt(err) ==
    LET m == ToLowerCase(err)
    IN  Includes(m, <<"disconnected">>) \/ Includes(m, <<"not", "connected">>)

(* readCharacteristic's local helper. *)
looksDisconnected(err) ==
    LET m == ToLowerCase(err)
    IN  \/ Includes(m, <<"disconnected">>)
        \/ Includes(m, <<"not", "connected">>)
        \/ Includes(m, <<"gatt", "133">>)

Max(a, b) == IF a >= b THEN a ELSE b
Min(a, b) == IF a <= b THEN a ELSE b

VARIABLES
    connected,            \* this.connected: the device id, or NoDevice for null
    currentMtu,           \* this.currentMtu, Undefined before the first connect
    currentPayloadLimit,  \* this.currentPayloadLimit
    lastTold,             \* value last broadcast by notifyConnectionChange
    connectionListeners,  \* this.connectionListeners: the registered callbacks, in order
    heard,                \* per callback: the value it was last invoked with
    links,                \* radio: devices whose link is up
    lateConn,             \* radio: connect requests abandoned by withTimeout, still pending
    serviceVerified,      \* devices whose current link passed isMachharDevice
    op, pc, dev, id,      \* per call: method, position, connect argument, radio target
    attempt, lastErr,     \* per call: readCharacteristic's loop locals
    dv,                   \* per call: the DataView (bytes) the radio last returned
    phase, arg,           \* per call: readStatistics' position (main/fallback), the argument
    field,                \* per call: getDeviceInfo's current field, 1..6
    status, err, errArgs, \* per call: settled outcome, the error and its numbers
    ret,                  \* per call: the value it resolved with
    reads,                \* per call: radio reads issued by its current read invocation
    writes, sent,         \* per call: radio writes issued, last payload written
    notes,                \* per call: the values it broadcast to subscribers
    ncalls,               \* operations the UI started so far
    chain,                \* OpQueue.chain: the jobs queued on it, the running one first
    jpc,                  \* position of the job at the head of the chain
    qlaunch,              \* core calls the running job starts before its first await
    qcalls,               \* core calls the running job awaits
    jerr,                 \* the error the running job's fn throws, NoError for none
    connectedCached,      \* CompatBluetoothService._connected
    settled,              \* outcome of the job that settled last
    lpc,                  \* useFirmwareStats.load: its position
    lstart, ltotal,       \* load: its locals start and total
    collected,            \* load: the record indices of the entries it collected, in order
    asked,                \* load: the number of slices it requested
    lcall,                \* load: the readStatistics call it awaits, 0 for none
    held                  \* the number of records the device holds

listeners == <<connectionListeners, heard>>
mgr == <<connected, currentMtu, currentPayloadLimit, lastTold, listeners>>
radio == <<links, lateConn, serviceVerified>>
locals == <<op, dev, id, attempt, lastErr, dv, phase, arg, field>>
outcome == <<status, err, errArgs, ret>>
io == <<reads, writes, sent>>
counters == <<io, notes>>
wrapper == <<chain, jpc, qlaunch, qcalls, jerr, connectedCached, settled>>
hook == <<lpc, lstart, ltotal, collected, asked, lcall, held>>
vars == <<mgr, radio, pc, locals, outcome, counters, ncalls, wrapper, hook>>

InitService ==
    /\ connected = NoDevice
    /\ currentMtu = Undefined
    /\ currentPayloadLimit = Undefined
    /\ lastTold = "disconnected"   \* onConnectionChange tells a new subscriber the current value
    /\ connectionListeners = <<>>
    /\ heard = [s \in Subscribers |-> "none"]
    /\ links = {}
    /\ lateConn = {}
    /\ serviceVerified = {}
    /\ op = [p \in Procs |-> "none"]
    /\ pc = [p \in Procs |-> "idle"]
    /\ dev = [p \in Procs |-> NoDevice]
    /\ id = [p \in Procs |-> NoDevice]
    /\ attempt = [p \in Procs |-> 0]
    /\ lastErr = [p \in Procs |-> NoError]
    /\ dv = [p \in Procs |-> <<>>]
    /\ phase = [p \in Procs |-> "main"]
    /\ arg = [p \in Procs |-> <<>>]
    /\ field = [p \in Procs |-> 0]
    /\ status = [p \in Procs |-> "none"]
    /\ err = [p \in Procs |-> NoError]
    /\ errArgs = [p \in Procs |-> <<>>]
    /\ ret = [p \in Procs |-> <<>>]
    /\ sent = [p \in Procs |-> <<>>]
    /\ reads = [p \in Procs |-> 0]
    /\ writes = [p \in Procs |-> 0]
    /\ notes = [p \in Procs |-> <<>>]
    /\ ncalls = 0
    /\ chain = <<>>
    /\ jpc = "waiting"
    /\ qlaunch = <<>>
    /\ qcalls = {}
    /\ jerr = NoError
    /\ connectedCached = FALSE
    /\ settled = [kind |-> "none", status |-> "none"]
    /\ lpc = "idle"
    /\ lstart = 0
    /\ ltotal = 0
    /\ collected = <<>>
    /\ asked = 0
    /\ lcall = 0

Init == InitService /\ held = 0

isDeviceConnected(c) == c # NoDevice

(* The boolean a callback receives, by name. *)
StateName(c) == IF isDeviceConnected(c) THEN "connected" ELSE "disconnected"

(* A listener loop without the try/catch around each callback: the first   *)
(* callback that throws ends it.                                           *)
RECURSIVE forEachUncaught(_, _, _)
forEachUncaught(cbs, v, h) ==
    IF cbs = <<>> THEN h
    ELSE IF Throws(Head(cbs)) THEN [h EXCEPT ![Head(cbs)] = v]
    ELSE forEachUncaught(Tail(cbs), v, [h EXCEPT ![Head(cbs)] = v])

(* notifyConnectionChange's loop: every callback of the list is invoked    *)
(* with v inside its own try/catch, so a throw goes on to the next one.    *)
(* The result is what every callback has last been invoked with.           *)
RECURSIVE forEachListener(_, _, _)
forEachListener(cbs, v, h) ==
    IF cbs = <<>> THEN h
    ELSE forEachListener(Tail(cbs), v, [h EXCEPT ![Head(cbs)] = v])

(* notifyConnectionChange run by call p after this.connected became c. *)
Notify(p, c) ==
    /\ lastTold' = (IF isDeviceConnected(c) THEN "connected" ELSE "disconnected")
    /\ heard' = forEachListener(connectionListeners, StateName(c), heard)
    /\ UNCHANGED connectionListeners
    /\ notes' = [notes EXCEPT ![p] = Append(@, isDeviceConnected(c))]

(* A settled promise runs its caller's continuation as a microtask, before *)
(* any timer, radio result or UI event is handled: while a call is "done"  *)
(* the only step is its Return.  A job of the wrapper starts its core      *)
(* calls one after the other in one synchronous segment.                   *)
Quiet == qlaunch = <<>> /\ \A q \in Procs : pc[q] # "done"

At(p, label) == pc[p] = label /\ Quiet

(* A core call that a caller is about to make in its current segment. *)
Launch(by, name, d, a) == [by |-> by, name |-> name, dev |-> d, arg |-> a]

(* A call starts: entry of an async method, up to its first await. *)
Begin(p, name) ==
    /\ pc[p] = "idle"
    /\ \A q \in Procs : q < p => pc[q] # "idle"   \* slots are interchangeable: take the lowest
    /\ IF qlaunch = <<>>
       THEN /\ Quiet                  \* a call made by the UI
            /\ ncalls < MaxCalls
            /\ ncalls' = ncalls + 1
            /\ UNCHANGED <<wrapper, hook>>
       ELSE /\ name = Head(qlaunch).name   \* a call made by the running job or by load
            /\ qlaunch' = Tail(qlaunch)
            /\ IF Head(qlaunch).by = "job"
               THEN qcalls' = qcalls \cup {p} /\ UNCHANGED lcall
               ELSE lcall' = p /\ UNCHANGED qcalls
            /\ UNCHANGED <<ncalls, chain, jpc, jerr, connectedCached, settled>>
            /\ UNCHANGED <<lpc, lstart, ltotal, collected, asked, held>>
    /\ op' = [op EXCEPT ![p] = name]

Resolve(p, value) ==
    /\ pc' = [pc EXCEPT ![p] = "done"]
    /\ status' = [status EXCEPT ![p] = "ok"]
    /\ ret' = [ret EXCEPT ![p] = value]
    /\ UNCHANGED <<err, errArgs>>

Reject(p, e) ==
    /\ pc' = [pc EXCEPT ![p] = "done"]
    /\ status' = [status EXCEPT ![p] = "err"]
    /\ err' = [err EXCEPT ![p] = e]
    /\ UNCHANGED <<errArgs, ret>>

Goto(p, label) ==
    /\ pc' = [pc EXCEPT ![p] = label]
    /\ UNCHANGED outcome

(***************************************************************************)
(* connect(device)                                                         *)
(***************************************************************************)
CallConnect(p, d) ==
    /\ Begin(p, "connect")
    /\ qlaunch # <<>> => d = Head(qlaunch).dev
    /\ dev' = [dev EXCEPT ![p] = d]
    /\ Goto(p, "c_init")           \* await this.initialize()
    /\ UNCHANGED <<mgr, radio, id, attempt, lastErr, dv, phase, arg, field, counters>>

(* After initialize: the same-device no-op, the implicit disconnect of    *)
(* another device, or the radio connect under withTimeout.                 *)
ConnectCheck(p) ==
    /\ At(p, "c_init")
    /\ IF connected = dev[p]
       THEN /\ Resolve(p, <<>>)
            /\ UNCHANGED id
       ELSE IF connected # NoDevice
       THEN /\ id' = [id EXCEPT ![p] = connected]   \* disconnect(): const id
            /\ Goto(p, "c_disc")                    \* await BleClient.disconnect(id)
       ELSE /\ Goto(p, "c_radio")                   \* await withTimeout(BleClient.connect)
            /\ UNCHANGED id
    /\ UNCHANGED <<mgr, radio, op, dev, attempt, lastErr, dv, phase, arg, field, counters, ncalls, wrapper, hook>>

(* BleClient.disconnect(id) settles inside connect's implicit disconnect: *)
(* the error is swallowed, the finally block clears the state, and the     *)
(* radio connect is issued.                                                *)
ConnectDisconnected(p, ok) ==
    /\ At(p, "c_disc")
    /\ links' = (IF ok THEN links \ {id[p]} ELSE links)
    /\ serviceVerified' = (IF ok THEN serviceVerified \ {id[p]} ELSE serviceVerified)
    /\ connected' = NoDevice
    /\ Notify(p, NoDevice)
    /\ id' = [id EXCEPT ![p] = NoDevice]       \* disconnect() returned
    /\ Goto(p, "c_radio")
    /\ UNCHANGED <<currentMtu, currentPayloadLimit, lateConn, op, dev, attempt, lastErr, dv,
                   phase, arg, field, io, ncalls, wrapper, hook>>

(* BleClient.connect resolved before the timer. *)
ConnectRadioOk(p) ==
    /\ At(p, "c_radio")
    /\ links' = links \cup {dev[p]}
    /\ serviceVerified' = serviceVerified \ {dev[p]}
    /\ connected' = dev[p]
    /\ Notify(p, dev[p])
    /\ Goto(p, "c_settle")         \* await sleep(200)
    /\ UNCHANGED <<currentMtu, currentPayloadLimit, lateConn, locals, io, ncalls, wrapper, hook>>

(* BleClient.connect rejected before the timer. *)
ConnectRadioFail(p) ==
    /\ At(p, "c_radio")
    /\ Reject(p, RadioConnectFailed)
    /\ UNCHANGED <<mgr, radio, locals, counters, ncalls, wrapper, hook>>

(* A connect that records the device before the radio connect settled and *)
(* keeps it when the timer fires.                                          *)
ConnectTimedOutOptimistic(p) ==
    /\ At(p, "c_radio")
    /\ lateConn' = lateConn \cup {dev[p]}
    /\ connected' = dev[p]
    /\ Notify(p, dev[p])
    /\ Reject(p, ErrConnectTimeout)
    /\ UNCHANGED <<currentMtu, currentPayloadLimit, links, serviceVerified, locals, io, ncalls, wrapper, hook>>

(* withTimeout's timer fired first: connect() rejects, and the radio       *)
(* request it raced against stays pending.                                 *)
ConnectTimedOut(p) ==
    /\ At(p, "c_radio")
    /\ lateConn' = lateConn \cup {dev[p]}
    /\ Reject(p, ErrConnectTimeout)
    /\ UNCHANGED <<mgr, links, serviceVerified, locals, counters, ncalls, wrapper, hook>>

(* this.currentMtu = 23, connection priority, then tryRequestMtu(517) is   *)
(* issued.                                                                 *)
ConnectSettled(p) ==
    /\ At(p, "c_settle")
    /\ currentMtu' = DefaultMtu
    /\ Goto(p, "c_mtu1")
    /\ UNCHANGED <<connected, currentPayloadLimit, lastTold, listeners, radio, locals, counters, ncalls, wrapper, hook>>

(* What tryRequestMtu(mtu) leaves in this.currentMtu: unchanged when       *)
(* requestMtu is missing or throws, the requested value when granted and   *)
(* getMtu is missing or throws, else the value getMtu reports.             *)
MtuAfterRequest(cur, mtu) == {cur, mtu} \cup MtuGrants

(* A write limit that subtracts the read header instead of the write one. *)
payloadLimitLessOne(mtu) == Max(MinPayloadLimit, (IF mtu = Undefined THEN DefaultMtu ELSE mtu) - 1)

payloadLimitOf(mtu) == Max(MinPayloadLimit, (IF mtu = Undefined THEN DefaultMtu ELSE mtu) - 3)

(* tryRequestMtu(517) returned. *)
ConnectMtuFirst(p, m) ==
    /\ At(p, "c_mtu1")
    /\ m \in MtuAfterRequest(currentMtu, MtuFirstRequest)
    /\ currentMtu' = m
    /\ IF (IF m = Undefined THEN DefaultMtu ELSE m) <= DefaultMtu
       THEN /\ Goto(p, "c_mtu2")   \* await sleep(200); tryRequestMtu(247)
            /\ UNCHANGED currentPayloadLimit
       ELSE /\ currentPayloadLimit' = payloadLimitOf(m)
            /\ Goto(p, "c_verify") \* await sleep(150); isMachharDevice
    /\ UNCHANGED <<connected, lastTold, listeners, radio, locals, counters, ncalls, wrapper, hook>>

(* tryRequestMtu(247) returned. *)
ConnectMtuSecond(p, m) ==
    /\ At(p, "c_mtu2")
    /\ m \in MtuAfterRequest(currentMtu, MtuSecondRequest)
    /\ currentMtu' = m
    /\ currentPayloadLimit' = payloadLimitOf(m)
    /\ Goto(p, "c_verify")
    /\ UNCHANGED <<connected, lastTold, listeners, radio, locals, counters, ncalls, wrapper, hook>>

(* isMachharDevice(device.id) returned ok.  Listing succeeds only over a   *)
(* live link; a failed listing and a listing without the service both      *)
(* give false.  On false, disconnect() runs: it returns at once when       *)
(* this.connected is null, else it issues the radio disconnect.            *)
ConnectVerified(p, ok) ==
    /\ At(p, "c_verify")
    /\ ok => dev[p] \in links
    /\ IF ok
       THEN /\ serviceVerified' = serviceVerified \cup {dev[p]}
            /\ Resolve(p, <<>>)
            /\ UNCHANGED id
       ELSE IF connected = NoDevice
       THEN /\ Reject(p, ErrServiceNotFound)
            /\ UNCHANGED <<id, serviceVerified>>
       ELSE /\ id' = [id EXCEPT ![p] = connected]
            /\ Goto(p, "c_vdisc")
            /\ UNCHANGED serviceVerified
    /\ UNCHANGED <<mgr, links, lateConn, op, dev, attempt, lastErr, dv, phase, arg, field, counters, ncalls, wrapper, hook>>

(* The radio disconnect after a failed verification settled. *)
ConnectVerifyDisconnected(p, ok) ==
    /\ At(p, "c_vdisc")
    /\ links' = (IF ok THEN links \ {id[p]} ELSE links)
    /\ serviceVerified' = (IF ok THEN serviceVerified \ {id[p]} ELSE serviceVerified)
    /\ connected' = NoDevice
    /\ Notify(p, NoDevice)
    /\ Reject(p, ErrServiceNotFound)
    /\ UNCHANGED <<currentMtu, currentPayloadLimit, lateConn, locals, io, ncalls, wrapper, hook>>

(***************************************************************************)
(* disconnect()                                                            *)
(***************************************************************************)
CallDisconnect(p) ==
    /\ Begin(p, "disconnect")
    /\ IF connected = NoDevice
       THEN /\ Resolve(p, <<>>)
            /\ UNCHANGED id
       ELSE /\ id' = [id EXCEPT ![p] = connected]
            /\ Goto(p, "d_radio")
    /\ UNCHANGED <<mgr, radio, dev, attempt, lastErr, dv, phase, arg, field, counters>>

(* A disconnect without the finally block: a radio failure is thrown and   *)
(* the state is kept.                                                      *)
DisconnectSettledNoFinally(p, ok) ==
    /\ At(p, "d_radio")
    /\ links' = (IF ok THEN links \ {id[p]} ELSE links)
    /\ serviceVerified' = (IF ok THEN serviceVerified \ {id[p]} ELSE serviceVerified)
    /\ IF ok
       THEN /\ connected' = NoDevice
            /\ Notify(p, NoDevice)
            /\ Resolve(p, <<>>)
       ELSE /\ Reject(p, RadioConnectFailed)
            /\ UNCHANGED <<connected, lastTold, listeners, notes>>
    /\ UNCHANGED <<currentMtu, currentPayloadLimit, lateConn, locals, io, ncalls, wrapper, hook>>

DisconnectSettled(p, ok) ==
    /\ At(p, "d_radio")
    /\ links' = (IF ok THEN links \ {id[p]} ELSE links)
    /\ serviceVerified' = (IF ok THEN serviceVerified \ {id[p]} ELSE serviceVerified)
    /\ connected' = NoDevice
    /\ Notify(p, NoDevice)
    /\ Resolve(p, <<>>)
    /\ UNCHANGED <<currentMtu, currentPayloadLimit, lateConn, locals, io, ncalls, wrapper, hook>>

(***************************************************************************)
(* Codec helpers.                                                          *)
(***************************************************************************)
(* Number.NaN, kept apart from every integer a caller passes. *)
NaN == 1000000

(* A clamp without the isNaN test: Math.max and Math.min pass NaN on. *)
clampPassingNaN(n, lo, hi) == IF n = NaN THEN NaN ELSE Max(lo, Min(hi, n))

(* clamp: NaN gives lo.  The numbers here are integers, which Math.floor   *)
(* leaves as they are.                                                     *)
clamp(n, lo, hi) == IF n = NaN THEN lo ELSE Max(lo, Min(hi, n))

(* getUint8 of every byte of the DataView. *)
dataViewToNumbers(view) == [i \in 1..Len(view) |-> view[i] % 256]

(* A decoder that reports the count its header declares. *)
parseScheduleTrustingHeader(bytes) ==
    IF Len(bytes) < 1 THEN [count |-> 0, entries |-> <<>>]
    ELSE LET advertisedCount == bytes[1]
             arrived == Max(0, (Len(bytes) - 1) \div 8)
             n == Min(advertisedCount, arrived)
         IN  [count |-> advertisedCount,
              entries |-> [i \in 1..n |->
                  [time7 |-> SubSeq(bytes, 2 + (i - 1) * 8, 8 + (i - 1) * 8),
                   intensity2b |-> bytes[9 + (i - 1) * 8] % 4]]]

parseSchedulePayload(bytes) ==
    IF Len(bytes) < 1 THEN [count |-> 0, entries |-> <<>>]
    ELSE LET advertisedCount == bytes[1]
             arrived == Max(0, (Len(bytes) - 1) \div 8)
             n == Min(advertisedCount, arrived)
         IN  [count |-> n,
              entries |-> [i \in 1..n |->
                  [time7 |-> SubSeq(bytes, 2 + (i - 1) * 8, 8 + (i - 1) * 8),
                   intensity2b |-> bytes[9 + (i - 1) * 8] % 4]]]

parseStatsPayload(bytes) ==
    IF Len(bytes) < 2 THEN [total |-> 0, window |-> 0, entries |-> <<>>]
    ELSE LET total == bytes[1]
             wantHdr == bytes[2]
             arrived == Max(0, (Len(bytes) - 2) \div 8)
             n == Min(wantHdr, arrived)
         IN  [total |-> total, window |-> n,
              entries |-> [i \in 1..n |->
                  [time7 |-> SubSeq(bytes, 3 + (i - 1) * 8, 9 + (i - 1) * 8),
                   intensity2b |-> bytes[10 + (i - 1) * 8] % 4]]]

(* Strings are sequences of char codes.  String.prototype.trim. *)
IsSpace(c) == c \in {9, 10, 11, 12, 13, 32}

RECURSIVE trimStart(_)
trimStart(str) ==
    IF str # <<>> /\ IsSpace(Head(str)) THEN trimStart(Tail(str)) ELSE str

RECURSIVE trimEnd(_)
trimEnd(str) ==
    IF str # <<>> /\ IsSpace(str[Len(str)]) THEN trimEnd(SubSeq(str, 1, Len(str) - 1)) ELSE str

trim(str) == trimEnd(trimStart(str))

(* getDeviceInfo: the fallback of each field, in the order it reads them:  *)
(* "Machhar", "VeraShield", "Unknown", "unknown", "unknown", "unknown".    *)
NumTextFields == 6
Fallback(i) ==
    CASE i = 1 -> <<77, 97, 99, 104, 104, 97, 114>>
      [] i = 2 -> <<86, 101, 114, 97, 83, 104, 105, 101, 108, 100>>
      [] i = 3 -> <<85, 110, 107, 110, 111, 119, 110>>
      [] OTHER -> <<117, 110, 107, 110, 111, 119, 110>>

(* readText's value for field i from the bytes read. *)
textOf(i, bytes) == IF trim(bytes) # <<>> THEN trim(bytes) ELSE Fallback(i)

(* A count that is not capped to the one-byte header. *)
scheduleCountUncapped(entries) == Len(entries)

(* An encoder that keeps 7 bits of every time byte. *)
scheduleBytesSevenBit(entries) ==
    LET count == Min(255, Len(entries))
    IN  [j \in 1..(1 + 8 * count) |->
            IF j = 1 THEN count
            ELSE LET e == entries[((j - 2) \div 8) + 1]
                     k == (j - 2) % 8
                 IN  IF k < 7 THEN e.time7[k + 1] % 128 ELSE e.intensity2b % 4]

(* writeSchedule: count and the assembled bytes [count, 8 bytes per entry]. *)
scheduleCount(entries) == Min(255, Len(entries))

scheduleBytes(entries) ==
    LET count == scheduleCount(entries)
    IN  [j \in 1..(1 + 8 * count) |->
            IF j = 1 THEN count
            ELSE LET e == entries[((j - 2) \div 8) + 1]
                     k == (j - 2) % 8
                 IN  IF k < 7 THEN e.time7[k + 1] % 256 ELSE e.intensity2b % 4]

(* writeSchedule: the budget its size check uses. *)
payloadMax(limit, mtu) ==
    Max(MinPayloadLimit,
        IF limit # Undefined THEN limit
        ELSE (IF mtu = Undefined THEN DefaultMtu ELSE mtu) - 3)

maxEntries(pmax) == Max(0, (pmax - 1) \div 8)

(* readStatistics: the most one read returns, (mtu - 1) with mtu =        *)
(* this.currentMtu ?? 23.                                                  *)
readPayloadMax(mtu) == (IF mtu = Undefined THEN DefaultMtu ELSE mtu) - 1

(* A window capped to 63 only, whatever one read PDU carries. *)
statsWinBUnfitted(window, mtu) ==
    LET m == IF mtu = Undefined THEN DefaultMtu ELSE mtu
        maxEntriesOneRead == Max(1, ((m - 1) - 2) \div 8)
    IN  IF window = 0 THEN maxEntriesOneRead ELSE clamp(window, 1, 63)

(* readStatistics: the control pair it writes first. *)
statsStartB(st) == clamp(st, 0, 255)

statsWinB(window, mtu) ==
    LET m == IF mtu = Undefined THEN DefaultMtu ELSE mtu
        maxEntriesOneRead == Max(1, ((m - 1) - 2) \div 8)
    IN  IF window = 0 THEN maxEntriesOneRead
        ELSE Min(clamp(window, 1, 63), maxEntriesOneRead)

(***************************************************************************)
(* Inputs and radio values used to exercise the operations.                *)
(***************************************************************************)
EntryA == [time7 |-> <<0, 30, 8, 1, 0, 0, 125>>, intensity2b |-> 2]
EntryB == [time7 |-> <<59, 300, 23, 31, 6, 11, 126>>, intensity2b |-> 7]
EntryBad == [time7 |-> <<1, 2, 3>>, intensity2b |-> 1]
EntryList(n) == [i \in 1..n |-> IF i % 2 = 1 THEN EntryA ELSE EntryB]
EntryC == [time7 |-> <<59, 255, 23, 31, 6, 11, 126>>, intensity2b |-> 7]
ByteList(n) == [i \in 1..n |-> IF i % 2 = 1 THEN EntryC ELSE EntryA]
ScheduleLens == {2, 3, 5, 256}
ByteLens == {0, 2, 22}
ScheduleInputs ==
    {EntryList(n) : n \in ScheduleLens} \cup {<<EntryBad>>} \cup {ByteList(n) : n \in ByteLens}

TimeInputs == {<<30, 15, 25, 1, 0, 0, 125>>, <<1, 2, 3>>}
SprayInputs == {6}
StatsInputs == {<<300, 100>>}

ScheduleValues == {<<1, 0, 30, 8, 1, 0, 0, 125, 6>>, <<10>>}
StatsValues == {<<140, 2, 0, 30, 8, 1, 0, 0, 125, 1>>}
BatteryValues == {<<>>, <<55>>, <<200>>}
TextValues == {<<32>>, <<77, 32>>}

(* Dates, as <<seconds, minutes, hours, date, day, month, year>>: a day in *)
(* 2025, years before 1900 and after 2155, and the invalid Date.           *)
DateInputs ==
    {<<30, 45, 13, 15, 0, 5, 2025>>, <<59, 59, 23, 31, 6, 11, 1850>>,
     <<0, 0, 0, 1, 3, 0, 2200>>, <<NaN, NaN, NaN, NaN, NaN, NaN, NaN>>}
RawTimeInputs ==
    TimeInputs \cup {<<NaN, 59, 23, 31, 6, 11, 300>>, <<-1, 0, 0, 1, 0, 0, 0>>}

(* Arguments of readStatistics and MTU values for the window computation. *)
WindowInputs == {<<st, w>> : st \in {-1, 0, 255, 300, NaN},
                             w \in {-5, 1, 2, 3, 22, 23, 63, 64, 100, NaN}}
MtuRange == DefaultMtu..MtuFirstRequest

(* Buffers handed to the decoders: a header, then len body bytes, which    *)
(* stop anywhere between whole records and take many values.               *)
DeclaredCounts == {0, 1, 2, MaxRecords, 10, 255}
BodyLens == 0..(8 * MaxRecords + 7)
Seeds == {0, 131}
Body(len, seed) == [k \in 1..len |-> (k * 37 + seed) % 256]
ScheduleBuffers ==
    {<<>>} \cup {<<h>> \o Body(len, seed) :
                    h \in DeclaredCounts, len \in BodyLens, seed \in Seeds}
StatsBuffers ==
    {<<>>, <<140>>} \cup {<<140, h>> \o Body(len, seed) :
                            h \in DeclaredCounts, len \in BodyLens, seed \in Seeds}

(***************************************************************************)
(* readCharacteristic / writeCharacteristic                                *)
(***************************************************************************)
(* writeCharacteristic's catch block test. *)
writeLooksDisconnected(e) ==
    LET msg == ToLowerCase(e)
    IN  Includes(msg, <<"disconnected">>) \/ Includes(msg, <<"not", "connected">>)

(* The test after readCharacteristic's retry loop. *)
finalLooksDisconnected(e) == Includes(ToLowerCase(e), <<"disconnected">>)

(* this.connected becomes c; subscribers are told when it was cleared. *)
SetConnected(p, c, cleared) ==
    /\ connected' = c
    /\ IF cleared THEN Notify(p, c) ELSE UNCHANGED <<lastTold, listeners, notes>>
    /\ UNCHANGED <<currentMtu, currentPayloadLimit>>

(* writeCharacteristic up to its await: ensureConnected, then the radio    *)
(* write of bytes to this.connected.  c is this.connected at that point.   *)
(* A throw goes to the caller: readStatistics' fallback swallows it and    *)
(* rethrows the original error kept in err.                                *)
WriteEnter(p, c, bytes, name, ph) ==
    IF c = NoDevice
    THEN /\ Reject(p, IF name = "readStatistics" /\ ph = "fallback"
                      THEN err[p] ELSE ErrDeviceNotConnected)
         /\ UNCHANGED <<id, writes, sent>>
    ELSE /\ id' = [id EXCEPT ![p] = c]
         /\ writes' = [writes EXCEPT ![p] = @ + 1]
         /\ sent' = [sent EXCEPT ![p] = bytes]
         /\ pc' = [pc EXCEPT ![p] = "w_wait"]
         /\ UNCHANGED <<status, errArgs, ret>>
         /\ err' = err

(* readCharacteristic threw e to its caller while this.connected is c.     *)
(* readStatistics catches the first failure and starts the window-2        *)
(* fallback, remembering e; a failure of the fallback rethrows the first.  *)
ReadThrew(p, e, c) ==
    IF op[p] = "readStatistics" /\ phase[p] = "main"
    THEN /\ phase' = [phase EXCEPT ![p] = "fallback"]
         /\ IF c = NoDevice
            THEN /\ Reject(p, e)
                 /\ UNCHANGED <<id, writes, sent>>
            ELSE /\ id' = [id EXCEPT ![p] = c]
                 /\ writes' = [writes EXCEPT ![p] = @ + 1]
                 /\ sent' = [sent EXCEPT ![p] = <<statsStartB(arg[p][1]), 2>>]
                 /\ pc' = [pc EXCEPT ![p] = "w_wait"]
                 /\ err' = [err EXCEPT ![p] = e]
                 /\ UNCHANGED <<status, errArgs, ret>>
    ELSE /\ Reject(p, IF op[p] = "readStatistics" THEN err[p] ELSE e)
         /\ UNCHANGED <<id, writes, sent, phase>>

(* readCharacteristic up to its first await: ensureConnected, attempt 1.   *)
ReadEnter(p) ==
    IF connected = NoDevice
    THEN /\ ReadThrew(p, ErrDeviceNotConnected, connected)
         /\ UNCHANGED <<attempt, reads>>
    ELSE /\ attempt' = [attempt EXCEPT ![p] = 1]
         /\ id' = [id EXCEPT ![p] = connected]
         /\ reads' = [reads EXCEPT ![p] = 1]
         /\ Goto(p, "r_wait")
         /\ UNCHANGED <<writes, sent, phase>>

(* BleClient.read resolved inside readCharacteristic. *)
RadioReadOk(p, v) ==
    /\ At(p, "r_wait")
    /\ id[p] \in links
    /\ v \in (IF op[p] = "readSchedule" THEN ScheduleValues ELSE StatsValues)
    /\ dv' = [dv EXCEPT ![p] = v]
    /\ Resolve(p, IF op[p] = "readSchedule" THEN parseSchedulePayload(dataViewToNumbers(v))
                  ELSE parseStatsPayload(dataViewToNumbers(v)))
    /\ UNCHANGED <<mgr, radio, op, dev, id, attempt, lastErr, phase, arg, field, counters, ncalls, wrapper, hook>>

(* BleClient.read rejected inside readCharacteristic: a hard disconnect    *)
(* clears the state and is thrown, anything else starts the backoff.       *)
RadioReadFail(p, e) ==
    /\ At(p, "r_wait")
    /\ lastErr' = [lastErr EXCEPT ![p] = e]
    /\ IF looksDisconnected(e)
       THEN /\ SetConnected(p, NoDevice, TRUE)
            /\ ReadThrew(p, e, NoDevice)
       ELSE /\ Goto(p, "r_backoff")      \* await sleep(40 * attempt)
            /\ UNCHANGED <<mgr, notes, id, writes, sent, phase>>
    /\ UNCHANGED <<radio, op, dev, attempt, dv, arg, field, reads, ncalls, wrapper, hook>>

(* The backoff elapsed: the next attempt, or the end of the loop.  The     *)
(* next attempt dereferences this.connected inside the try block, so a     *)
(* state cleared meanwhile raises a TypeError that the catch block treats  *)
(* like any radio error.                                                   *)
ReadBackoffDone(p) ==
    /\ At(p, "r_backoff")
    /\ IF attempt[p] >= maxAttempts
       THEN LET cleared == finalLooksDisconnected(lastErr[p])
                c == IF cleared THEN NoDevice ELSE connected
            IN  /\ SetConnected(p, c, cleared)
                /\ ReadThrew(p, lastErr[p], c)
                /\ UNCHANGED <<attempt, lastErr, reads>>
       ELSE /\ attempt' = [attempt EXCEPT ![p] = @ + 1]
            /\ IF connected = NoDevice
               THEN /\ lastErr' = [lastErr EXCEPT ![p] = ErrNullDeref]
                    /\ IF looksDisconnected(ErrNullDeref)
                       THEN /\ SetConnected(p, NoDevice, TRUE)
                            /\ ReadThrew(p, ErrNullDeref, NoDevice)
                       ELSE /\ Goto(p, "r_backoff")
                            /\ UNCHANGED <<mgr, notes, id, writes, sent, phase>>
                    /\ UNCHANGED reads
               ELSE /\ id' = [id EXCEPT ![p] = connected]
                    /\ reads' = [reads EXCEPT ![p] = @ + 1]
                    /\ Goto(p, "r_wait")
                    /\ UNCHANGED <<mgr, notes, lastErr, writes, sent, phase>>
    /\ UNCHANGED <<radio, op, dev, dv, arg, field, ncalls, wrapper, hook>>

(* BleClient.write resolved inside writeCharacteristic. *)
RadioWriteOk(p) ==
    /\ At(p, "w_wait")
    /\ id[p] \in links
    /\ IF op[p] = "readStatistics"
       THEN Goto(p, "s_sleep")           \* await sleep(60)
       ELSE Resolve(p, <<>>)
    /\ UNCHANGED <<mgr, radio, locals, counters, ncalls, wrapper, hook>>

(* BleClient.write rejected inside writeCharacteristic. *)
RadioWriteFail(p, e) ==
    /\ At(p, "w_wait")
    /\ SetConnected(p, IF writeLooksDisconnected(e) THEN NoDevice ELSE connected,
                    writeLooksDisconnected(e))
    /\ Reject(p, IF op[p] = "readStatistics" /\ phase[p] = "fallback" THEN err[p] ELSE e)
    /\ UNCHANGED <<radio, locals, io, ncalls, wrapper, hook>>

(***************************************************************************)
(* Protocol operations                                                     *)
(***************************************************************************)
CallReadSchedule(p) ==
    /\ Begin(p, "readSchedule")
    /\ ReadEnter(p)
    /\ UNCHANGED <<mgr, radio, dev, lastErr, dv, arg, field, notes>>

CallSyncTimeRaw(p, time7) ==
    /\ Begin(p, "syncTimeRaw")
    /\ arg' = [arg EXCEPT ![p] = time7]
    /\ IF Len(time7) # 7
       THEN /\ Reject(p, ErrTime7)
            /\ UNCHANGED <<id, writes, sent>>
       ELSE WriteEnter(p, connected, [i \in 1..7 |-> clamp(time7[i], 0, 255)], "syncTimeRaw", "main")
    /\ UNCHANGED <<mgr, radio, dev, attempt, lastErr, dv, phase, field, reads, notes>>

(* syncTimeFromDate: the Date's getters, clamped field by field, handed to *)
(* syncTimeRaw.  d is <<seconds, minutes, hours, date, day, month, year>>  *)
(* as the getters return them: all NaN for an invalid Date.                *)
time7FromDate(d) ==
    <<clamp(d[1], 0, 59), clamp(d[2], 0, 59), clamp(d[3], 0, 23), clamp(d[4], 1, 31),
      clamp(d[5], 0, 6), clamp(d[6], 0, 11),
      clamp(IF d[7] = NaN THEN NaN ELSE d[7] - 1900, 0, 255)>>

CallSyncTimeFromDate(p, d) ==
    /\ Begin(p, "syncTimeFromDate")
    /\ arg' = [arg EXCEPT ![p] = d]
    /\ WriteEnter(p, connected, [i \in 1..7 |-> clamp(time7FromDate(d)[i], 0, 255)],
                  "syncTimeFromDate", "main")
    /\ UNCHANGED <<mgr, radio, dev, attempt, lastErr, dv, phase, field, reads, notes>>

CallRemoteSpray(p, state) ==
    /\ Begin(p, "remoteSpray")
    /\ arg' = [arg EXCEPT ![p] = <<state>>]
    /\ WriteEnter(p, connected, <<state % 4>>, "remoteSpray", "main")
    /\ UNCHANGED <<mgr, radio, dev, attempt, lastErr, dv, phase, field, reads, notes>>

(* writeSchedule: validation and assembly, the size check, then the write. *)
CallWriteSchedule(p, entries) ==
    /\ Begin(p, "writeSchedule")
    /\ arg' = [arg EXCEPT ![p] = entries]
    /\ LET count == scheduleCount(entries)
           pmax == payloadMax(currentPayloadLimit, currentMtu)
       IN  IF \E i \in 1..count : Len(entries[i].time7) # 7
           THEN /\ Reject(p, ErrEntryTime7)
                /\ UNCHANGED <<id, writes, sent>>
           ELSE IF Len(scheduleBytes(entries)) > pmax
           THEN /\ pc' = [pc EXCEPT ![p] = "done"]
                /\ status' = [status EXCEPT ![p] = "err"]
                /\ err' = [err EXCEPT ![p] = ErrScheduleTooLarge]
                /\ errArgs' = [errArgs EXCEPT ![p] = <<maxEntries(pmax), count>>]
                /\ UNCHANGED <<ret, id, writes, sent>>
           ELSE WriteEnter(p, connected, scheduleBytes(entries), "writeSchedule", "main")
    /\ UNCHANGED <<mgr, radio, dev, attempt, lastErr, dv, phase, field, reads, notes>>

(* readStatistics: the control write [startB, winB]. *)
CallReadStatistics(p, a) ==
    /\ Begin(p, "readStatistics")
    /\ qlaunch # <<>> => a = Head(qlaunch).arg
    /\ arg' = [arg EXCEPT ![p] = a]
    /\ WriteEnter(p, connected, <<statsStartB(a[1]), statsWinB(a[2], currentMtu)>>,
                  "readStatistics", "main")
    /\ UNCHANGED <<mgr, radio, dev, attempt, lastErr, dv, phase, field, reads, notes>>

(* readStatistics: the settle delay after a control write elapsed. *)
StatsSlept(p) ==
    /\ At(p, "s_sleep")
    /\ ReadEnter(p)
    /\ UNCHANGED <<mgr, radio, op, dev, lastErr, dv, arg, field, notes, ncalls, wrapper, hook>>

(* getBatteryLevel up to its await. *)
CallGetBatteryLevel(p) ==
    /\ Begin(p, "getBatteryLevel")
    /\ IF connected = NoDevice
       THEN /\ Reject(p, ErrDeviceNotConnected)
            /\ UNCHANGED <<id, reads>>
       ELSE /\ id' = [id EXCEPT ![p] = connected]
            /\ reads' = [reads EXCEPT ![p] = @ + 1]
            /\ Goto(p, "b_wait")
    /\ UNCHANGED <<mgr, radio, dev, attempt, lastErr, dv, phase, arg, field, writes, sent, notes>>

BatteryReadOk(p, v) ==
    /\ At(p, "b_wait")
    /\ id[p] \in links
    /\ dv' = [dv EXCEPT ![p] = v]
    /\ LET arr == dataViewToNumbers(v)
       IN  Resolve(p, <<clamp(IF Len(arr) >= 1 THEN arr[1] ELSE 0, 0, 100)>>)
    /\ UNCHANGED <<mgr, radio, op, dev, id, attempt, lastErr, phase, arg, field, counters, ncalls, wrapper, hook>>

(* getBatteryLevel's catch block: every failure clears the connection. *)
BatteryReadFail(p, e) ==
    /\ At(p, "b_wait")
    /\ SetConnected(p, NoDevice, TRUE)
    /\ Reject(p, e)
    /\ UNCHANGED <<radio, locals, io, ncalls, wrapper, hook>>

(* readText up to its await, for field i: ensureConnected is outside the   *)
(* try block, so it fails getDeviceInfo as a whole.                        *)
TextEnter(p, i) ==
    /\ field' = [field EXCEPT ![p] = i]
    /\ IF connected = NoDevice
       THEN /\ pc' = [pc EXCEPT ![p] = "done"]
            /\ status' = [status EXCEPT ![p] = "err"]
            /\ err' = [err EXCEPT ![p] = ErrDeviceNotConnected]
            /\ UNCHANGED <<id, reads>>
       ELSE /\ id' = [id EXCEPT ![p] = connected]
            /\ reads' = [reads EXCEPT ![p] = 1]
            /\ pc' = [pc EXCEPT ![p] = "t_wait"]
            /\ UNCHANGED <<status, err>>

CallGetDeviceInfo(p) ==
    /\ Begin(p, "getDeviceInfo")
    /\ TextEnter(p, 1)
    /\ UNCHANGED <<mgr, radio, dev, attempt, lastErr, dv, phase, arg, errArgs, ret,
                   writes, sent, notes>>

(* readText returned value for the current field: the next field is read,  *)
(* or the record is complete.                                              *)
TextDone(p, value) ==
    /\ ret' = [ret EXCEPT ![p] = Append(@, value)]
    /\ IF field[p] = NumTextFields
       THEN /\ pc' = [pc EXCEPT ![p] = "done"]
            /\ status' = [status EXCEPT ![p] = "ok"]
            /\ UNCHANGED <<err, field, id, reads>>
       ELSE TextEnter(p, field[p] + 1)
    /\ UNCHANGED <<mgr, radio, op, dev, attempt, lastErr, phase, arg, errArgs,
                   writes, sent, notes, ncalls, wrapper, hook>>

TextReadOk(p, v) ==
    /\ At(p, "t_wait")
    /\ id[p] \in links
    /\ dv' = [dv EXCEPT ![p] = v]
    /\ TextDone(p, textOf(field[p], dataViewToNumbers(v)))

(* A readText without the catch block: the failure is thrown. *)
TextReadFailThrown(p, e) ==
    /\ At(p, "t_wait")
    /\ Reject(p, e)
    /\ UNCHANGED <<mgr, radio, locals, counters, ncalls, wrapper, hook>>

(* readText's catch block: any failure gives the fallback. *)
TextReadFail(p, e) ==
    /\ At(p, "t_wait")
    /\ dv' = dv
    /\ TextDone(p, Fallback(field[p]))

(***************************************************************************)
(* onConnectionChange(cb) and the unsubscribe function it returns          *)
(***************************************************************************)
filter(cbs, cb) == SelectSeq(cbs, LAMBDA c : c # cb)

(* cb is appended and invoked once with the current value; a throw of it   *)
(* is swallowed.                                                           *)
Subscribe(cb) ==
    /\ Quiet
    /\ \A i \in 1..Len(connectionListeners) : connectionListeners[i] # cb
    /\ connectionListeners' = Append(connectionListeners, cb)
    /\ heard' = [heard EXCEPT ![cb] = StateName(connected)]
    /\ UNCHANGED <<connected, currentMtu, currentPayloadLimit, lastTold, radio, pc, locals,
                   outcome, counters, ncalls, wrapper, hook>>

Unsubscribe(cb) ==
    /\ Quiet
    /\ \E i \in 1..Len(connectionListeners) : connectionListeners[i] = cb
    /\ connectionListeners' = filter(connectionListeners, cb)
    /\ heard' = [heard EXCEPT ![cb] = "none"]
    /\ UNCHANGED <<connected, currentMtu, currentPayloadLimit, lastTold, radio, pc, locals,
                   outcome, counters, ncalls, wrapper, hook>>

(***************************************************************************)
(* The radio.                                                              *)
(***************************************************************************)
(* A link drop whose callback leaves this.connected alone. *)
LinkLostUnnoticed(d) ==
    /\ Quiet
    /\ d \in links
    /\ links' = links \ {d}
    /\ serviceVerified' = serviceVerified \ {d}
    /\ UNCHANGED <<mgr, lateConn, pc, locals, outcome, counters, ncalls, wrapper, hook>>

(* The link to d drops (device out of range or powered off) and the        *)
(* plugin runs the disconnect callback registered by connect().            *)
LinkLost(d) ==
    /\ Quiet
    /\ d \in links
    /\ links' = links \ {d}
    /\ serviceVerified' = serviceVerified \ {d}
    /\ connected' = NoDevice
    /\ lastTold' = "disconnected"
    /\ heard' = forEachListener(connectionListeners, StateName(NoDevice), heard)
    /\ UNCHANGED connectionListeners
    /\ UNCHANGED <<currentMtu, currentPayloadLimit, lateConn, pc, locals, outcome, counters, ncalls, wrapper, hook>>

(* A connect request abandoned by withTimeout completes anyway. *)
LateConnectOk(d) ==
    /\ Quiet
    /\ d \in lateConn
    /\ lateConn' = lateConn \ {d}
    /\ links' = links \cup {d}
    /\ serviceVerified' = serviceVerified \ {d}
    /\ UNCHANGED <<mgr, pc, locals, outcome, counters, ncalls, wrapper, hook>>

LateConnectFail(d) ==
    /\ Quiet
    /\ d \in lateConn
    /\ lateConn' = lateConn \ {d}
    /\ UNCHANGED <<mgr, links, serviceVerified, pc, locals, outcome, counters, ncalls, wrapper, hook>>

(* A settled call is consumed; the slot is free again. *)
Release(p) ==
    /\ pc[p] = "done"
    /\ qlaunch = <<>>
    /\ pc' = [pc EXCEPT ![p] = "idle"]
    /\ op' = [op EXCEPT ![p] = "none"]
    /\ dev' = [dev EXCEPT ![p] = NoDevice]
    /\ id' = [id EXCEPT ![p] = NoDevice]
    /\ attempt' = [attempt EXCEPT ![p] = 0]
    /\ lastErr' = [lastErr EXCEPT ![p] = NoError]
    /\ dv' = [dv EXCEPT ![p] = <<>>]
    /\ phase' = [phase EXCEPT ![p] = "main"]
    /\ arg' = [arg EXCEPT ![p] = <<>>]
    /\ field' = [field EXCEPT ![p] = 0]
    /\ status' = [status EXCEPT ![p] = "none"]
    /\ err' = [err EXCEPT ![p] = NoError]
    /\ errArgs' = [errArgs EXCEPT ![p] = <<>>]
    /\ ret' = [ret EXCEPT ![p] = <<>>]
    /\ sent' = [sent EXCEPT ![p] = <<>>]
    /\ reads' = [reads EXCEPT ![p] = 0]
    /\ writes' = [writes EXCEPT ![p] = 0]
    /\ notes' = [notes EXCEPT ![p] = <<>>]
    /\ UNCHANGED <<mgr, radio, ncalls>>

(* The caller of a core call made by the UI takes its result. *)
Return(p) ==
    /\ p \notin qcalls
    /\ p # lcall
    /\ Release(p)
    /\ UNCHANGED <<wrapper, hook>>

(***************************************************************************)
(* services/bluetooth/bluetoothService.ts: OpQueue and the                 *)
(* CompatBluetoothService methods that run on it.                          *)
(***************************************************************************)
isDisconnecty(e) ==
    LET s == ToLowerCase(e)
    IN  \/ Includes(s, <<"not", "connected">>)
        \/ Includes(s, <<"device", "disconnected">>)
        \/ Includes(s, <<"gatt", "133">>)
        \/ Includes(s, <<"connection", "was", "closed">>)

Job(kind, d) == [kind |-> kind, dev |-> d]

WrapperJobs ==
    {Job("readDeviceData", NoDevice), Job("disconnect", NoDevice),
     Job("isDeviceConnected", NoDevice)} \cup {Job("connect", d) : d \in Devices}

(* The gapMs each method passes to OpQueue.run. *)
GapMs(kind) ==
    CASE kind = "connect" -> 250
      [] kind = "readDeviceData" -> 120
      [] OTHER -> 0

(* The core calls a job's fn makes before its first await, in order. *)
CoreCalls(job) ==
    CASE job.kind = "readDeviceData" ->
             <<Launch("job", "getBatteryLevel", NoDevice, <<>>),
               Launch("job", "getDeviceInfo", NoDevice, <<>>)>>
      [] job.kind = "connect" -> <<Launch("job", "connect", job.dev, <<>>)>>
      [] job.kind = "disconnect" -> <<Launch("job", "disconnect", NoDevice, <<>>)>>
      [] OTHER -> <<>>

(* OpQueue.run: exec is chained behind every job submitted before.  The    *)
(* step commutes with every step of the core, so taking exec's start as a  *)
(* step of its own adds no behaviour.                                      *)
Submit(job) ==
    /\ Quiet
    /\ ncalls < MaxCalls
    /\ ncalls' = ncalls + 1
    /\ chain' = Append(chain, job)
    /\ UNCHANGED <<jpc, qlaunch, qcalls, jerr, connectedCached, settled, hook>>
    /\ UNCHANGED <<mgr, radio, pc, locals, outcome, counters>>

(* The job leaves the queue: its promise settles and the chain moves on. *)
JobSettles(e) ==
    /\ chain' = Tail(chain)
    /\ jpc' = "waiting"
    /\ jerr' = NoError
    /\ settled' = [kind |-> Head(chain).kind,
                   status |-> IF e = NoError THEN "ok" ELSE "err"]

(* exec starts: fn runs up to its first await.  isDeviceConnected awaits   *)
(* a value that is already there and has no gap: it settles at once and    *)
(* the wrapper stores the probe in its cache.                              *)
JobStart ==
    /\ Quiet
    /\ jpc = "waiting"
    /\ chain # <<>>
    /\ Cardinality({p \in Procs : pc[p] = "idle"}) >= Len(CoreCalls(Head(chain)))
    /\ IF Head(chain).kind = "isDeviceConnected"
       THEN /\ JobSettles(NoError)
            /\ connectedCached' = isDeviceConnected(connected)
            /\ UNCHANGED <<qlaunch, qcalls>>
       ELSE /\ qlaunch' = CoreCalls(Head(chain))
            /\ jpc' = "fn"
            /\ UNCHANGED <<chain, qcalls, jerr, connectedCached, settled>>
    /\ UNCHANGED <<mgr, radio, pc, locals, outcome, counters, ncalls, hook>>

(* What fn throws once the call of p has settled too.  readDeviceData      *)
(* looks at the battery result first and throws a reason only if it is     *)
(* disconnect-shaped; connect and disconnect pass every rejection on.      *)
Thrown(p) ==
    IF status[p] # "err" THEN jerr
    ELSE IF Head(chain).kind # "readDeviceData" THEN err[p]
    ELSE IF ~isDisconnecty(err[p]) THEN jerr
    ELSE IF op[p] = "getBatteryLevel" \/ jerr = NoError THEN err[p]
    ELSE jerr

(* A core call awaited by the running job settled.  When it was the last   *)
(* one, fn continues: connect probes isDeviceConnected through the queue   *)
(* and awaits the probe; the others finish, and exec waits out the gap.    *)
JobCallSettled(p) ==
    /\ p \in qcalls
    /\ Release(p)
    /\ qcalls' = qcalls \ {p}
    /\ LET job == Head(chain)
           e == Thrown(p)
       IN  IF qcalls' # {}
           THEN /\ jerr' = e
                /\ UNCHANGED <<chain, jpc, connectedCached, settled>>
           ELSE IF job.kind = "connect" /\ e = NoError
           THEN /\ chain' = Append(chain, Job("isDeviceConnected", NoDevice))
                /\ jpc' = "probe"
                /\ UNCHANGED <<jerr, connectedCached, settled>>
           ELSE /\ connectedCached' =
                       IF \/ job.kind = "disconnect" /\ e = NoError
                          \/ job.kind = "readDeviceData" /\ e # NoError
                       THEN FALSE ELSE connectedCached
                /\ IF GapMs(job.kind) > 0
                   THEN /\ jpc' = "gap"
                        /\ jerr' = e
                        /\ UNCHANGED <<chain, settled>>
                   ELSE JobSettles(e)
    /\ UNCHANGED <<qlaunch, ncalls, hook>>

(* exec's setTimeout(gapMs) fired. *)
JobGapElapsed ==
    /\ Quiet
    /\ jpc = "gap"
    /\ JobSettles(jerr)
    /\ UNCHANGED <<qlaunch, qcalls, connectedCached, hook>>
    /\ UNCHANGED <<mgr, radio, pc, locals, outcome, counters, ncalls>>

(***************************************************************************)
(* hooks/useFirmwareStats.ts: load, the loop that pages through the        *)
(* statistics, and the device it reads from.                               *)
(***************************************************************************)
(* Record i of the device, as its 8 bytes: a time stamp and an intensity.  *)
RecordBytes(i) == <<i % 60, i \div 60, 8, 1, 0, 0, 125, i % 4>>
RecordIndex(e) == e.time7[1] + 60 * e.time7[2]

(* n records from record first on, byte after byte. *)
Records(first, n) ==
    [j \in 1..(8 * n) |-> RecordBytes(first + (j - 1) \div 8)[((j - 1) % 8) + 1]]

(* The firmware's answer to the control pair ctrl over a link with this    *)
(* mtu: [total, want_effective] and the records start..start+want-1, where *)
(* want_effective is the window capped to 63, to what one read PDU         *)
(* carries, and to the records left.                                       *)
DeviceStats(ctrl, mtu) ==
    LET fit == (((IF mtu = Undefined THEN DefaultMtu ELSE mtu) - 1) - 2) \div 8
        want == Min(Min(ctrl[2], 63), Min(fit, Max(0, held - ctrl[1])))
    IN  <<held, want>> \o Records(ctrl[1], want)

(* The device answered the read of readStatistics. *)
StatsReadOk(p) ==
    /\ At(p, "r_wait")
    /\ op[p] = "readStatistics"
    /\ id[p] \in links
    /\ LET v == DeviceStats(sent[p], currentMtu)
       IN  /\ dv' = [dv EXCEPT ![p] = v]
           /\ Resolve(p, parseStatsPayload(dataViewToNumbers(v)))
    /\ UNCHANGED <<mgr, radio, op, dev, id, attempt, lastErr, phase, arg, field, counters, ncalls, wrapper, hook>>

(* A loop that steps one past what it received. *)
nextStartSkipping(st, got) == st + got + 1

(* start += got *)
nextStart(st, got) == st + got

(* load up to its first await: readStatistics(0, 0). *)
LoadStart ==
    /\ Quiet
    /\ lpc = "idle"
    /\ \E p \in Procs : pc[p] = "idle"
    /\ ncalls < MaxCalls
    /\ ncalls' = ncalls + 1
    /\ lpc' = "first"
    /\ lstart' = 0
    /\ ltotal' = 0
    /\ collected' = <<>>
    /\ asked' = 1
    /\ qlaunch' = <<Launch("load", "readStatistics", NoDevice, <<0, 0>>)>>
    /\ UNCHANGED <<lcall, held, chain, jpc, qcalls, jerr, connectedCached, settled>>
    /\ UNCHANGED <<mgr, radio, pc, locals, outcome, counters>>

(* The awaited readStatistics settled.  A rejection ends load in its catch *)
(* block with no entries.  A slice is appended and start advances by what  *)
(* was received; the first slice also gives total.  The loop goes on while *)
(* start < total, and breaks on a later slice that is empty.               *)
LoadSliceSettled(p) ==
    /\ p = lcall
    /\ Release(p)
    /\ lcall' = 0
    /\ IF status[p] = "err"
       THEN /\ lpc' = "failed"
            /\ collected' = <<>>
            /\ UNCHANGED <<lstart, ltotal, asked, qlaunch>>
       ELSE LET slice == ret[p]
                got == slice.window
                tot == IF lpc = "first" THEN slice.total ELSE ltotal
                st == nextStart(lstart, got)
            IN  IF lpc = "rest" /\ got <= 0
                THEN /\ lpc' = "done"
                     /\ UNCHANGED <<lstart, ltotal, collected, asked, qlaunch>>
                ELSE /\ collected' = collected \o
                            [i \in 1..got |-> RecordIndex(slice.entries[i])]
                     /\ lstart' = st
                     /\ ltotal' = tot
                     /\ IF st < tot
                        THEN /\ lpc' = "rest"
                             /\ asked' = asked + 1
                             /\ qlaunch' = <<Launch("load", "readStatistics", NoDevice, <<st, 0>>)>>
                        ELSE /\ lpc' = "done"
                             /\ UNCHANGED <<asked, qlaunch>>
    /\ UNCHANGED <<held, chain, jpc, qcalls, jerr, connectedCached, settled, ncalls>>

Next ==
    \/ \E p \in Procs, d \in Devices : CallConnect(p, d)
    \/ \E p \in Procs : ConnectCheck(p)
    \/ \E p \in Procs, ok \in BOOLEAN : ConnectDisconnected(p, ok)
    \/ \E p \in Procs : ConnectRadioOk(p)
    \/ \E p \in Procs : ConnectRadioFail(p)
    \/ \E p \in Procs : ConnectTimedOut(p)
    \/ \E p \in Procs : ConnectSettled(p)
    \/ \E p \in Procs, m \in MtuAfterRequest(currentMtu, MtuFirstRequest) : ConnectMtuFirst(p, m)
    \/ \E p \in Procs, m \in MtuAfterRequest(currentMtu, MtuSecondRequest) : ConnectMtuSecond(p, m)
    \/ \E p \in Procs, ok \in BOOLEAN : ConnectVerified(p, ok)
    \/ \E p \in Procs, ok \in BOOLEAN : ConnectVerifyDisconnected(p, ok)
    \/ \E p \in Procs : CallDisconnect(p)
    \/ \E p \in Procs, ok \in BOOLEAN : DisconnectSettled(p, ok)
    \/ \E p \in Procs : CallReadSchedule(p)
    \/ \E p \in Procs, t \in TimeInputs : CallSyncTimeRaw(p, t)
    \/ \E p \in Procs, st \in SprayInputs : CallRemoteSpray(p, st)
    \/ \E p \in Procs, es \in ScheduleInputs : CallWriteSchedule(p, es)
    \/ \E p \in Procs, a \in StatsInputs : CallReadStatistics(p, a)
    \/ \E p \in Procs : StatsSlept(p)
    \/ \E p \in Procs, v \in ScheduleValues \cup StatsValues : RadioReadOk(p, v)
    \/ \E p \in Procs, e \in RadioErrors : RadioReadFail(p, e)
    \/ \E p \in Procs : ReadBackoffDone(p)
    \/ \E p \in Procs : RadioWriteOk(p)
    \/ \E p \in Procs, e \in RadioErrors : RadioWriteFail(p, e)
    \/ \E p \in Procs : CallGetBatteryLevel(p)
    \/ \E p \in Procs, v \in BatteryValues : BatteryReadOk(p, v)
    \/ \E p \in Procs, e \in RadioErrors : BatteryReadFail(p, e)
    \/ \E d \in Devices : LinkLost(d)
    \/ \E d \in Devices : LateConnectOk(d)
    \/ \E d \in Devices : LateConnectFail(d)
    \/ \E p \in Procs : Return(p)

Spec == Init /\ [][Next]_vars

(***************************************************************************)
(* getDeviceInfo changes no state of the service, so it cannot disturb     *)
(* another call; it is checked on its own, against connect, disconnect     *)
(* and the radio.                                                          *)
(***************************************************************************)
NextInfo ==
    \/ \E p \in Procs, d \in Devices : CallConnect(p, d)
    \/ \E p \in Procs : ConnectCheck(p)
    \/ \E p \in Procs, ok \in BOOLEAN : ConnectDisconnected(p, ok)
    \/ \E p \in Procs : ConnectRadioOk(p)
    \/ \E p \in Procs : ConnectRadioFail(p)
    \/ \E p \in Procs : ConnectTimedOut(p)
    \/ \E p \in Procs : ConnectSettled(p)
    \/ \E p \in Procs, m \in MtuAfterRequest(currentMtu, MtuFirstRequest) : ConnectMtuFirst(p, m)
    \/ \E p \in Procs, m \in MtuAfterRequest(currentMtu, MtuSecondRequest) : ConnectMtuSecond(p, m)
    \/ \E p \in Procs, ok \in BOOLEAN : ConnectVerified(p, ok)
    \/ \E p \in Procs, ok \in BOOLEAN : ConnectVerifyDisconnected(p, ok)
    \/ \E p \in Procs : CallDisconnect(p)
    \/ \E p \in Procs, ok \in BOOLEAN : DisconnectSettled(p, ok)
    \/ \E p \in Procs : CallGetDeviceInfo(p)
    \/ \E p \in Procs, v \in TextValues : TextReadOk(p, v)
    \/ \E p \in Procs, e \in RadioErrors : TextReadFail(p, e)
    \/ \E d \in Devices : LinkLost(d)
    \/ \E d \in Devices : LateConnectOk(d)
    \/ \E d \in Devices : LateConnectFail(d)
    \/ \E p \in Procs : Return(p)

SpecInfo == Init /\ [][NextInfo]_vars

(* The connection lifecycle with subscribers: connect, disconnect, a read   *)
(* (the I/O path that can report a hard disconnect), the radio, and        *)
(* callbacks being registered and removed.                                 *)
NextListeners ==
    \/ \E cb \in Subscribers : Subscribe(cb)
    \/ \E cb \in Subscribers : Unsubscribe(cb)
    \/ \E p \in Procs, d \in Devices : CallConnect(p, d)
    \/ \E p \in Procs : ConnectCheck(p)
    \/ \E p \in Procs, ok \in BOOLEAN : ConnectDisconnected(p, ok)
    \/ \E p \in Procs : ConnectRadioOk(p)
    \/ \E p \in Procs : ConnectRadioFail(p)
    \/ \E p \in Procs : ConnectTimedOut(p)
    \/ \E p \in Procs : ConnectSettled(p)
    \/ \E p \in Procs, m \in MtuAfterRequest(currentMtu, MtuFirstRequest) : ConnectMtuFirst(p, m)
    \/ \E p \in Procs, m \in MtuAfterRequest(currentMtu, MtuSecondRequest) : ConnectMtuSecond(p, m)
    \/ \E p \in Procs, ok \in BOOLEAN : ConnectVerified(p, ok)
    \/ \E p \in Procs, ok \in BOOLEAN : ConnectVerifyDisconnected(p, ok)
    \/ \E p \in Procs : CallDisconnect(p)
    \/ \E p \in Procs, ok \in BOOLEAN : DisconnectSettled(p, ok)
    \/ \E p \in Procs : CallReadSchedule(p)
    \/ \E p \in Procs, v \in ScheduleValues : RadioReadOk(p, v)
    \/ \E p \in Procs, e \in RadioErrors : RadioReadFail(p, e)
    \/ \E p \in Procs : ReadBackoffDone(p)
    \/ \E d \in Devices : LinkLost(d)
    \/ \E d \in Devices : LateConnectOk(d)
    \/ \E d \in Devices : LateConnectFail(d)
    \/ \E p \in Procs : Return(p)

SpecListeners == Init /\ [][NextListeners]_vars

(* The wrapper in front of the core: jobs on the queue, next to the calls  *)
(* the UI makes on the core directly.                                      *)
NextQueue ==
    \/ \E job \in WrapperJobs : Submit(job)
    \/ JobStart
    \/ \E p \in Procs : JobCallSettled(p)
    \/ JobGapElapsed
    \/ \E p \in Procs, d \in Devices : CallConnect(p, d)
    \/ \E p \in Procs : ConnectCheck(p)
    \/ \E p \in Procs, ok \in BOOLEAN : ConnectDisconnected(p, ok)
    \/ \E p \in Procs : ConnectRadioOk(p)
    \/ \E p \in Procs : ConnectRadioFail(p)
    \/ \E p \in Procs : ConnectTimedOut(p)
    \/ \E p \in Procs : ConnectSettled(p)
    \/ \E p \in Procs, m \in MtuAfterRequest(currentMtu, MtuFirstRequest) : ConnectMtuFirst(p, m)
    \/ \E p \in Procs, m \in MtuAfterRequest(currentMtu, MtuSecondRequest) : ConnectMtuSecond(p, m)
    \/ \E p \in Procs, ok \in BOOLEAN : ConnectVerified(p, ok)
    \/ \E p \in Procs, ok \in BOOLEAN : ConnectVerifyDisconnected(p, ok)
    \/ \E p \in Procs : CallDisconnect(p)
    \/ \E p \in Procs, ok \in BOOLEAN : DisconnectSettled(p, ok)
    \/ \E p \in Procs : CallGetBatteryLevel(p)
    \/ \E p \in Procs, v \in BatteryValues : BatteryReadOk(p, v)
    \/ \E p \in Procs, e \in RadioErrors : BatteryReadFail(p, e)
    \/ \E p \in Procs : CallGetDeviceInfo(p)
    \/ \E p \in Procs, v \in TextValues : TextReadOk(p, v)
    \/ \E p \in Procs, e \in RadioErrors : TextReadFail(p, e)
    \/ \E d \in Devices : LinkLost(d)
    \/ \E d \in Devices : LateConnectOk(d)
    \/ \E d \in Devices : LateConnectFail(d)
    \/ \E p \in Procs : Return(p)

SpecQueue == Init /\ [][NextQueue]_vars

(* A device that holds some number of records, and one load running        *)
(* against it over a connection made with any of the MTU outcomes.  The    *)
(* statistics page calls load while no other call is in progress.          *)
StatsTotals == {0, 1, 140, 255}
InitStats == InitService /\ held \in StatsTotals
StatsErrors == {RadioBusy, RadioDisconnected}

NextStats ==
    \/ \E p \in Procs, d \in Devices : CallConnect(p, d)
    \/ \E p \in Procs : ConnectCheck(p)
    \/ \E p \in Procs, ok \in BOOLEAN : ConnectDisconnected(p, ok)
    \/ \E p \in Procs : ConnectRadioOk(p)
    \/ \E p \in Procs : ConnectRadioFail(p)
    \/ \E p \in Procs : ConnectSettled(p)
    \/ \E p \in Procs, m \in MtuAfterRequest(currentMtu, MtuFirstRequest) : ConnectMtuFirst(p, m)
    \/ \E p \in Procs, m \in MtuAfterRequest(currentMtu, MtuSecondRequest) : ConnectMtuSecond(p, m)
    \/ \E p \in Procs, ok \in BOOLEAN : ConnectVerified(p, ok)
    \/ \E p \in Procs, ok \in BOOLEAN : ConnectVerifyDisconnected(p, ok)
    \/ (\A p \in Procs : pc[p] = "idle") /\ LoadStart
    \/ \E p \in Procs : qlaunch # <<>> /\ CallReadStatistics(p, Head(qlaunch).arg)
    \/ \E p \in Procs : RadioWriteOk(p)
    \/ \E p \in Procs, e \in StatsErrors : RadioWriteFail(p, e)
    \/ \E p \in Procs : StatsSlept(p)
    \/ \E p \in Procs : StatsReadOk(p)
    \/ \E p \in Procs, e \in StatsErrors : RadioReadFail(p, e)
    \/ \E p \in Procs : ReadBackoffDone(p)
    \/ \E p \in Procs : LoadSliceSettled(p)
    \/ \E d \in Devices : LinkLost(d)
    \/ \E p \in Procs : Return(p)

SpecStats == InitStats /\ [][NextStats]_vars

(***************************************************************************)
(* The statistics window over every MTU a connection can have: the state   *)
(* after a connect that was granted MTU m, then readStatistics with many   *)
(* arguments.                                                              *)
(***************************************************************************)
(* The service between calls, connected to c (or to nothing) with the MTU *)
(* state that the last connect left: m, or nothing before any connect.    *)
ServiceWith(c, m) ==
    /\ connected = c
    /\ currentMtu = m
    /\ currentPayloadLimit = (IF m = Undefined THEN Undefined ELSE payloadLimitOf(m))
    /\ lastTold = StateName(c)
    /\ connectionListeners = <<>>
    /\ heard = [s \in Subscribers |-> "none"]
    /\ links = (IF c = NoDevice THEN {} ELSE {c})
    /\ lateConn = {}
    /\ serviceVerified = (IF c = NoDevice THEN {} ELSE {c})
    /\ op = [p \in Procs |-> "none"]
    /\ pc = [p \in Procs |-> "idle"]
    /\ dev = [p \in Procs |-> NoDevice]
    /\ id = [p \in Procs |-> NoDevice]
    /\ attempt = [p \in Procs |-> 0]
    /\ lastErr = [p \in Procs |-> NoError]
    /\ dv = [p \in Procs |-> <<>>]
    /\ phase = [p \in Procs |-> "main"]
    /\ arg = [p \in Procs |-> <<>>]
    /\ field = [p \in Procs |-> 0]
    /\ status = [p \in Procs |-> "none"]
    /\ err = [p \in Procs |-> NoError]
    /\ errArgs = [p \in Procs |-> <<>>]
    /\ ret = [p \in Procs |-> <<>>]
    /\ sent = [p \in Procs |-> <<>>]
    /\ reads = [p \in Procs |-> 0]
    /\ writes = [p \in Procs |-> 0]
    /\ notes = [p \in Procs |-> <<>>]
    /\ ncalls = 0
    /\ chain = <<>>
    /\ jpc = "waiting"
    /\ qlaunch = <<>>
    /\ qcalls = {}
    /\ jerr = NoError
    /\ connectedCached = FALSE
    /\ settled = [kind |-> "none", status |-> "none"]
    /\ lpc = "idle"
    /\ lstart = 0
    /\ ltotal = 0
    /\ collected = <<>>
    /\ asked = 0
    /\ lcall = 0
    /\ held = 0

InitWindow == \E m \in MtuRange : ServiceWith(CHOOSE d \in Devices : TRUE, m)

(* readStatistics up to its first await, the write of the control pair,   *)
(* taken as the value of the call: startB and winB for any arguments.      *)
ComputeWindow(p, a) ==
    /\ Begin(p, "statsWindow")
    /\ arg' = [arg EXCEPT ![p] = a]
    /\ Resolve(p, <<statsStartB(a[1]), statsWinB(a[2], currentMtu)>>)
    /\ UNCHANGED <<mgr, radio, dev, id, attempt, lastErr, dv, phase, field, counters>>

NextWindow ==
    \/ \E p \in Procs, a \in WindowInputs : ComputeWindow(p, a)
    \/ \E p \in Procs, a \in StatsInputs : CallReadStatistics(p, a)
    \/ \E p \in Procs : RadioWriteOk(p)
    \/ \E p \in Procs : RadioWriteFail(p, RadioBusy)
    \/ \E p \in Procs : StatsSlept(p)
    \/ \E p \in Procs, v \in StatsValues : RadioReadOk(p, v)
    \/ \E p \in Procs : RadioReadFail(p, RadioBusy)
    \/ \E p \in Procs : ReadBackoffDone(p)
    \/ \E p \in Procs : Return(p)

SpecWindow == InitWindow /\ [][NextWindow]_vars

(***************************************************************************)
(* The operations that write encoded numbers, over connections with every  *)
(* MTU outcome.                                                            *)
(***************************************************************************)
NextEncode ==
    \/ \E p \in Procs, d \in Devices : CallConnect(p, d)
    \/ \E p \in Procs : ConnectCheck(p)
    \/ \E p \in Procs, ok \in BOOLEAN : ConnectDisconnected(p, ok)
    \/ \E p \in Procs : ConnectRadioOk(p)
    \/ \E p \in Procs : ConnectRadioFail(p)
    \/ \E p \in Procs : ConnectSettled(p)
    \/ \E p \in Procs, m \in MtuAfterRequest(currentMtu, MtuFirstRequest) : ConnectMtuFirst(p, m)
    \/ \E p \in Procs, m \in MtuAfterRequest(currentMtu, MtuSecondRequest) : ConnectMtuSecond(p, m)
    \/ \E p \in Procs, ok \in BOOLEAN : ConnectVerified(p, ok)
    \/ \E p \in Procs, ok \in BOOLEAN : ConnectVerifyDisconnected(p, ok)
    \/ \E p \in Procs, t \in RawTimeInputs : CallSyncTimeRaw(p, t)
    \/ \E p \in Procs, d \in DateInputs : CallSyncTimeFromDate(p, d)
    \/ \E p \in Procs, es \in ScheduleInputs : CallWriteSchedule(p, es)
    \/ \E p \in Procs : RadioWriteOk(p)
    \/ \E p \in Procs, e \in StatsErrors : RadioWriteFail(p, e)
    \/ \E d \in Devices : LinkLost(d)
    \/ \E p \in Procs : Return(p)

(* Before the connect under study the service made no connection, or one  *)
(* that has ended and was granted one of the MTU outcomes.                 *)
MtuOutcomes == {DefaultMtu, MtuFirstRequest, MtuSecondRequest} \cup MtuGrants
InitEncode == \E m \in {Undefined} \cup MtuOutcomes : ServiceWith(NoDevice, m)

SpecEncode == InitEncode /\ [][NextEncode]_vars

(***************************************************************************)
(* scanForDevices()                                                        *)
(***************************************************************************)
MaxAds == 3

WANT == <<77, 65, 67, 72, 72, 65, 82>>             \* "MACHHAR"
toUpperCase(str) == [i \in 1..Len(str) |-> IF str[i] \in 97..122 THEN str[i] - 32 ELSE str[i]]
includes(str, sub) ==
    \E k \in 0..(Len(str) - Len(sub)) : SubSeq(str, k + 1, k + Len(sub)) = sub

(* Scan results as the callback receives them: the device id, the name     *)
(* getName finds ("Machhar", "TV", or none) and the rssi, if any.          *)
ScanNames == {<<77, 97, 99, 104, 104, 97, 114>>, <<84, 86>>, <<>>}
RssiValues == {-105, -70, -50, Undefined}
Ads == [id : Devices, name : ScanNames, rssi : RssiValues]

RssiFloor == -999
UnknownRssiRank == -100

(* A callback that stores every accepted result, the latest winning. *)
onScanResultLatest(results, res) ==
    IF res.name = <<>> \/ ~includes(toUpperCase(res.name), WANT) THEN results
    ELSE LET ks == {k \in 1..Len(results) : results[k].id = res.id}
         IN  IF ks = {} THEN Append(results, res)
             ELSE [results EXCEPT ![CHOOSE k \in ks : TRUE] = res]

(* The callback given to requestLEScan, on the Map results kept as the     *)
(* sequence of its values in insertion order.                              *)
onScanResult(results, res) ==
    IF res.name = <<>> THEN results                       \* skip nameless advertisements
    ELSE IF ~includes(toUpperCase(res.name), WANT) THEN results
    ELSE LET ks == {k \in 1..Len(results) : results[k].id = res.id}
         IN  IF ks = {} THEN Append(results, [id |-> res.id, name |-> res.name, rssi |-> res.rssi])
             ELSE LET k == CHOOSE i \in ks : TRUE
                      prev == results[k]
                      entry == [id |-> res.id, name |-> res.name,
                                rssi |-> IF res.rssi # Undefined THEN res.rssi ELSE prev.rssi]
                  IN  IF /\ res.rssi # Undefined
                         /\ (IF prev.rssi = Undefined THEN RssiFloor ELSE prev.rssi) < res.rssi
                      THEN [results EXCEPT ![k] = entry]
                      ELSE results

(* out.sort((a, b) => (b.rssi ?? -100) - (a.rssi ?? -100)): the sort is    *)
(* stable, entries of equal rank keep their order.                         *)
rank(e) == IF e.rssi = Undefined THEN UnknownRssiRank ELSE e.rssi

RECURSIVE insertByRank(_, _)
insertByRank(out, e) ==
    IF out = <<>> THEN <<e>>
    ELSE IF rank(Head(out)) >= rank(e) THEN <<Head(out)>> \o insertByRank(Tail(out), e)
    ELSE <<e>> \o out

RECURSIVE sortByRssi(_)
sortByRssi(out) ==
    IF out = <<>> THEN <<>>
    ELSE insertByRank(sortByRssi(SubSeq(out, 1, Len(out) - 1)), out[Len(out)])

CallScanForDevices(p) ==
    /\ Begin(p, "scanForDevices")
    /\ Goto(p, "sc_init")           \* await this.initialize()
    /\ UNCHANGED <<mgr, radio, dev, id, attempt, lastErr, dv, phase, arg, field, counters>>

(* requestLEScan is issued and accepted: the window is open. *)
ScanRequested(p) ==
    /\ At(p, "sc_init")
    /\ Goto(p, "sc_scan")           \* await requestLEScan; await sleep(scanTimeoutMs)
    /\ UNCHANGED <<mgr, radio, locals, counters, ncalls, wrapper, hook>>

(* requestLEScan rejected: the finally block stops the scan and the error  *)
(* is thrown.                                                              *)
ScanRequestFailed(p, e) ==
    /\ At(p, "sc_init")
    /\ lastErr' = [lastErr EXCEPT ![p] = e]
    /\ Goto(p, "sc_stop")           \* active = false; await stopLEScan()
    /\ UNCHANGED <<mgr, radio, op, dev, id, attempt, dv, phase, arg, field, counters, ncalls, wrapper, hook>>

(* The radio reports a scan result while the window is open. *)
Advertised(p, res) ==
    /\ At(p, "sc_scan")
    /\ Len(arg[p]) < MaxAds
    /\ arg' = [arg EXCEPT ![p] = Append(@, res)]
    /\ ret' = [ret EXCEPT ![p] = onScanResult(@, res)]
    /\ UNCHANGED <<mgr, radio, pc, op, dev, id, attempt, lastErr, dv, phase, field,
                   status, err, errArgs, counters, ncalls, wrapper, hook>>

(* sleep(scanTimeoutMs) elapsed. *)
ScanWindowElapsed(p) ==
    /\ At(p, "sc_scan")
    /\ Goto(p, "sc_stop")           \* active = false; await stopLEScan()
    /\ UNCHANGED <<mgr, radio, locals, counters, ncalls, wrapper, hook>>

(* stopLEScan settled, its error ignored: the values are sorted and       *)
(* returned, or the error of requestLEScan is thrown.                      *)
ScanStopped(p) ==
    /\ At(p, "sc_stop")
    /\ IF lastErr[p] # NoError
       THEN Reject(p, lastErr[p])
       ELSE Resolve(p, sortByRssi(ret[p]))
    /\ UNCHANGED <<mgr, radio, locals, counters, ncalls, wrapper, hook>>

(* The pairing screen disables its scan button while a scan runs. *)
NextScan ==
    \/ \E p \in Procs : (\A q \in Procs : pc[q] = "idle") /\ CallScanForDevices(p)
    \/ \E p \in Procs : ScanRequested(p)
    \/ \E p \in Procs : ScanRequestFailed(p, RadioBusy)
    \/ \E p \in Procs, res \in Ads : Advertised(p, res)
    \/ \E p \in Procs : ScanWindowElapsed(p)
    \/ \E p \in Procs : ScanStopped(p)
    \/ \E p \in Procs : Return(p)

SpecScan == Init /\ [][NextScan]_vars


(***************************************************************************)
(* The decoders applied to buffers of any length.                          *)
(***************************************************************************)
DecodeSchedule(p, raw) ==
    /\ Begin(p, "parseSchedulePayload")
    /\ dv' = [dv EXCEPT ![p] = raw]
    /\ Resolve(p, parseSchedulePayload(dataViewToNumbers(raw)))
    /\ UNCHANGED <<mgr, radio, dev, id, attempt, lastErr, phase, arg, field, counters>>

DecodeStats(p, raw) ==
    /\ Begin(p, "parseStatsPayload")
    /\ dv' = [dv EXCEPT ![p] = raw]
    /\ Resolve(p, parseStatsPayload(dataViewToNumbers(raw)))
    /\ UNCHANGED <<mgr, radio, dev, id, attempt, lastErr, phase, arg, field, counters>>

NextCodec ==
    \/ \E p \in Procs, raw \in ScheduleBuffers : DecodeSchedule(p, raw)
    \/ \E p \in Procs, raw \in StatsBuffers : DecodeStats(p, raw)
    \/ \E p \in Procs : Return(p)

SpecCodec == Init /\ [][NextCodec]_vars

(***************************************************************************)
(* Properties.                                                             *)
(***************************************************************************)
ReadOps == {"readSchedule", "readStatistics"}
WriteOps == {"syncTimeRaw", "remoteSpray", "writeSchedule"}
HardDisconnectErrors == {RadioDisconnected, RadioNotConnected, RadioGatt133}
WellFormed(entries) == \A i \in 1..Len(entries) : Len(entries[i].time7) = 7

(* C1: one invocation of the characteristic read issues at most 4 radio    *)
(* reads.  A read that gets radio failures is rejected with a transient    *)
(* error only after its 4th attempt, so a success that follows up to 3     *)
(* transient failures is returned, and what is returned is the decoding    *)
(* of the bytes of that successful attempt.                                *)
C1_ReadRetriesThenReturns ==
    \A p \in Procs :
        /\ op[p] \in ReadOps => reads[p] <= 4 /\ attempt[p] <= 4
        /\ (pc[p] = "done" /\ op[p] = "readSchedule" /\ status[p] = "err" /\ reads[p] >= 1
              /\ err[p] \notin HardDisconnectErrors)
           => attempt[p] = 4
        /\ (pc[p] = "done" /\ op[p] = "readSchedule" /\ status[p] = "ok")
           => /\ ret[p] = parseSchedulePayload(dataViewToNumbers(dv[p]))
              /\ attempt[p] \in 1..4
              /\ lastErr[p] \notin HardDisconnectErrors

C1_Witness ==
    \E p \in Procs :
        /\ pc[p] = "done" /\ op[p] = "readSchedule" /\ status[p] = "ok"
        /\ attempt[p] = 4 /\ reads[p] = 4 /\ lastErr[p] = RadioBusy
        /\ dv[p] = <<1, 0, 30, 8, 1, 0, 0, 125, 6>>
        /\ ret[p].count = 1

(* C2: a read whose radio attempt fails with a disconnect-classified error *)
(* never enters the backoff: it ends at once with that same error, the     *)
(* state Disconnected and subscribers told false; when that was its first  *)
(* attempt it has issued exactly one radio read.                           *)
C2_HardDisconnectOnRead ==
    \A p \in Procs :
        op[p] = "readSchedule" =>
            /\ pc[p] = "r_backoff" => lastErr[p] \notin HardDisconnectErrors
            /\ (pc[p] = "done" /\ lastErr[p] \in HardDisconnectErrors)
               => /\ status[p] = "err"
                  /\ err[p] = lastErr[p]
                  /\ connected = NoDevice
                  /\ lastTold = "disconnected"
                  /\ notes[p] = <<FALSE>>
                  /\ attempt[p] = 1 => reads[p] = 1

C2_Witness ==
    \E p \in Procs :
        /\ pc[p] = "done" /\ op[p] = "readSchedule"
        /\ lastErr[p] = RadioGatt133 /\ err[p] = RadioGatt133
        /\ attempt[p] = 1 /\ reads[p] = 1
        /\ connected = NoDevice /\ notes[p] = <<FALSE>>

(* C3, as claimed: a write rejected with a transient radio error has made  *)
(* 4 radio write attempts.                                                 *)
C3_WriteRetried ==
    \A p \in Procs :
        (pc[p] = "done" /\ op[p] \in WriteOps /\ status[p] = "err" /\ err[p] = RadioBusy)
        => writes[p] = 4

(* C4, as claimed: a write that fails with any error kind the read path    *)
(* treats as a hard disconnect clears the connection and tells subscribers.*)
C4_WriteClassifiesLikeRead ==
    \A p \in Procs :
        (pc[p] = "done" /\ op[p] \in WriteOps /\ status[p] = "err"
           /\ err[p] \in HardDisconnectErrors)
        => connected = NoDevice /\ notes[p] = <<FALSE>>

(* C5, as claimed: an operation whose radio failures are all transient     *)
(* does not clear the connection and tells subscribers nothing.            *)
C5_TransientNeverClears ==
    \A p \in Procs :
        (pc[p] = "done" /\ op[p] \in {"readSchedule", "getBatteryLevel"} \cup WriteOps
           /\ status[p] = "err" /\ err[p] = RadioBusy)
        => notes[p] = <<>>

(* C6, as claimed: a protocol operation invoked while Disconnected fails   *)
(* with 'Device not connected', whatever well-formed argument it is       *)
(* given.  (A call that has ended without a radio read, write or           *)
(* broadcast while the state is Disconnected was invoked in that state.)   *)
C6_DisconnectedMeansNotConnected ==
    \A p \in Procs :
        (pc[p] = "done" /\ op[p] \in ReadOps \cup WriteOps \cup {"getBatteryLevel"}
           /\ connected = NoDevice /\ reads[p] = 0 /\ writes[p] = 0 /\ notes[p] = <<>>
           /\ (op[p] = "syncTimeRaw" => Len(arg[p]) = 7)
           /\ (op[p] = "writeSchedule" => WellFormed(arg[p])))
        => status[p] = "err" /\ err[p] = ErrDeviceNotConnected

(* The payload the write-size policy expects for a list of entries: the    *)
(* count and then every entry, 8 bytes each.                               *)
ExpectedSchedule(entries) ==
    [j \in 1..(1 + 8 * Len(entries)) |->
        IF j = 1 THEN Len(entries)
        ELSE IF (j - 2) % 8 < 7 THEN entries[((j - 2) \div 8) + 1].time7[((j - 2) % 8) + 1] % 256
        ELSE entries[((j - 2) \div 8) + 1].intensity2b % 4]

(* C7, as claimed: a writeSchedule rejected as too large while Ready       *)
(* reports attempted = the number of entries passed.                       *)
C7_AttemptedIsEntryCount ==
    \A p \in Procs :
        (pc[p] = "done" /\ op[p] = "writeSchedule" /\ connected # NoDevice
           /\ err[p] = ErrScheduleTooLarge)
        => errArgs[p][2] = Len(arg[p])

(* C7, amended: writeSchedule(entries) called while Ready with entries     *)
(* whose time vectors have 7 bytes either issues one radio write of        *)
(* [count] and all the entries, within the budget, or fails as too large   *)
(* with max = floor((budget - 1) / 8) and attempted = min(255, number of   *)
(* entries) without a radio write; no call issues a second write.          *)
C7_WriteSizePolicy ==
    /\ [][\A p \in Procs :
            (pc[p] = "idle" /\ pc'[p] # "idle" /\ op'[p] = "writeSchedule"
               /\ connected # NoDevice /\ WellFormed(arg'[p]))
            => LET es == arg'[p]
                   budget == IF currentPayloadLimit # Undefined THEN currentPayloadLimit
                             ELSE IF currentMtu # Undefined THEN currentMtu - 3 ELSE 20
                   limit == IF budget > 20 THEN budget ELSE 20
               IN  \/ /\ pc'[p] = "w_wait" /\ writes'[p] = 1
                      /\ sent'[p] = ExpectedSchedule(es)
                      /\ Len(sent'[p]) <= limit
                      /\ id'[p] = connected
                   \/ /\ pc'[p] = "done" /\ status'[p] = "err"
                      /\ err'[p] = ErrScheduleTooLarge
                      /\ errArgs'[p] = <<(limit - 1) \div 8,
                                         IF Len(es) < 255 THEN Len(es) ELSE 255>>
                      /\ 1 + 8 * Len(es) > limit
                      /\ writes'[p] = 0]_vars
    /\ [](\A p \in Procs : op[p] = "writeSchedule" => writes[p] <= 1)

C7_Witness ==
    \E p \in Procs :
        /\ pc[p] = "done" /\ op[p] = "writeSchedule" /\ connected # NoDevice
        /\ currentMtu = 23 /\ currentPayloadLimit = 20
        /\ Len(arg[p]) = 5 /\ err[p] = ErrScheduleTooLarge
        /\ errArgs[p] = <<2, 5>> /\ writes[p] = 0

C9_VerifyFailureDisconnectsDevice ==
    \A p \in Procs :
        (pc[p] = "done" /\ op[p] = "connect" /\ err[p] = ErrServiceNotFound)
        => /\ id[p] = dev[p] \/ dev[p] \notin links
           /\ connected = NoDevice

(* C10, as claimed: the radio never holds links to two devices at once.    *)
C10_SingleLink == Cardinality(links) <= 1

(* C11, as claimed: while a connect for a device is in progress, a second  *)
(* connect for the same device issues no radio connect request of its      *)
(* own: at most one request per device is pending at the radio.            *)
C11_ConnectDeduplicated ==
    \A p, q \in Procs :
        (p # q /\ pc[p] = "c_radio" /\ pc[q] = "c_radio") => dev[p] # dev[q]

(* C12: disconnect() never fails and leaves the state Disconnected, with   *)
(* subscribers told so, whether its radio disconnect succeeded or threw;   *)
(* called while already Disconnected it returns at once without a radio    *)
(* call and without a notification.                                        *)
C12_DisconnectIdempotent ==
    /\ [](\A p \in Procs :
            (pc[p] = "done" /\ op[p] = "disconnect")
            => /\ status[p] = "ok"
               /\ connected = NoDevice
               /\ lastTold = "disconnected"
               /\ notes[p] = (IF id[p] = NoDevice THEN <<>> ELSE <<FALSE>>))
    /\ [][\A p \in Procs :
            (pc[p] = "idle" /\ pc'[p] # "idle" /\ op'[p] = "disconnect" /\ connected = NoDevice)
            => /\ pc'[p] = "done" /\ status'[p] = "ok"
               /\ id'[p] = NoDevice /\ notes'[p] = <<>>
               /\ links' = links /\ connected' = NoDevice /\ lastTold' = lastTold]_vars

(* A disconnect whose radio call threw (the link is still up) has returned. *)
C12_Witness ==
    \E p \in Procs :
        /\ pc[p] = "done" /\ op[p] = "disconnect" /\ status[p] = "ok"
        /\ id[p] \in links /\ connected = NoDevice /\ notes[p] = <<FALSE>>

(* C13: after every change of the connection state (connect success,      *)
(* disconnect(), a radio disconnect event, a hard-disconnect read failure) *)
(* every registered subscriber, one registered behind a throwing one       *)
(* included, has been invoked with the new value; and an operation that    *)
(* notified a throwing subscriber ends as it would without it: a           *)
(* disconnect() still resolves.                                            *)
C13_AllSubscribersTold ==
    /\ \A i \in 1..Len(connectionListeners) :
          heard[connectionListeners[i]]
              = (IF connected # NoDevice THEN "connected" ELSE "disconnected")
    /\ \A p \in Procs : (pc[p] = "done" /\ op[p] = "disconnect") => status[p] = "ok"
    /\ \A p \in Procs : pc[p] \in {"c_settle", "c_mtu1", "c_mtu2", "c_verify"} => notes[p] # <<>>

(* A hard-disconnect read failure has told the subscriber registered       *)
(* behind the throwing one.                                                *)
C13_Witness ==
    \E p \in Procs :
        /\ pc[p] = "done" /\ op[p] = "readSchedule" /\ err[p] = RadioDisconnected
        /\ notes[p] = <<FALSE>>
        /\ connectionListeners = <<"throwing", "quiet">>
        /\ heard["quiet"] = "disconnected" /\ heard["throwing"] = "disconnected"

(* C14: a connect waits for the radio in state Disconnected with no        *)
(* subscriber told connected=true by it; when the timeout fires first the  *)
(* call fails with 'BLE connect timed out', and that step changes neither  *)
(* the connection state nor any link and notifies nobody.                  *)
C14_ConnectTimeout ==
    /\ [][\A p \in Procs :
            (pc[p] # "c_radio" /\ pc'[p] = "c_radio")
            => connected' = NoDevice /\ lastTold' = "disconnected"]_vars
    /\ [](\A p \in Procs :
            (op[p] = "connect" /\ (pc[p] = "c_radio" \/ err[p] = ErrConnectTimeout))
            => notes[p] \in {<<>>, <<FALSE>>})
    /\ [][\A p \in Procs :
            (pc[p] = "c_radio" /\ pc'[p] = "done" /\ err'[p] = ErrConnectTimeout)
            => /\ status'[p] = "err"
               /\ connected' = connected /\ lastTold' = lastTold /\ heard' = heard
               /\ notes' = notes /\ links' = links]_vars

C14_Witness ==
    \E p \in Procs :
        /\ pc[p] = "done" /\ op[p] = "connect" /\ status[p] = "err"
        /\ err[p] = ErrConnectTimeout /\ dev[p] \in lateConn
        /\ connected = NoDevice /\ lastTold = "disconnected" /\ links = {}


(* The positions at which a call has a GATT read or write in flight. *)
InFlight == {"r_wait", "w_wait", "b_wait", "t_wait"}

(* C15: characteristic I/O is serialized: at no time do two calls have a   *)
(* GATT read or write in flight at the radio, whether they were started    *)
(* by one job of the wrapper's queue or by the UI on the core.             *)
C15_IoSerialized ==
    \A p, q \in Procs : (pc[p] \in InFlight /\ pc[q] \in InFlight) => p = q


(* C16, as claimed: once the state is Disconnected, a read that is waiting *)
(* in its retry backoff with attempts left makes no further attempt: when  *)
(* the backoff ends it fails with 'Device not connected' and issues no     *)
(* radio read.                                                             *)
C16_PendingFailsNotConnected ==
    [][\A p \in Procs :
          (/\ pc[p] = "r_backoff"
           /\ attempt[p] < maxAttempts
           /\ connected = NoDevice
           /\ (pc'[p] # pc[p] \/ attempt'[p] # attempt[p]))
          => /\ pc'[p] = "done"
             /\ status'[p] = "err"
             /\ err'[p] = ErrDeviceNotConnected
             /\ reads'[p] = reads[p]]_vars


(* The number of entries a buffer holds: the declared count, cut to the    *)
(* whole 8-byte records behind a header of hdr bytes, the declared count   *)
(* being the last header byte; nothing when the header is incomplete.      *)
Expected(raw, hdr) ==
    IF Len(raw) < hdr THEN 0
    ELSE LET whole == (Len(raw) - hdr) \div 8
         IN  IF raw[hdr] <= whole THEN raw[hdr] ELSE whole

(* Entry i of a decoded buffer is record i of the buffer, read inside it:  *)
(* 7 time bytes, and the low 2 bits of the 8th byte.                       *)
EntryIsRecord(e, raw, hdr, i) ==
    LET base == hdr + 8 * (i - 1)
    IN  /\ base + 8 <= Len(raw)
        /\ e.time7 = [k \in 1..7 |-> raw[base + k]]
        /\ e.intensity2b \in 0..3
        /\ \E hi \in 0..63 : raw[base + 8] = 4 * hi + e.intensity2b

(* C17: decoding is truncation-safe for any byte sequence.  Both decoders  *)
(* return (never fail) with exactly min(declared count, whole records      *)
(* present) entries, report that number as count / window, and every entry *)
(* is the record at its place inside the buffer with the intensity masked  *)
(* to 2 bits.                                                              *)
C17_TruncationSafe ==
    \A p \in Procs :
        /\ (pc[p] = "done" /\ op[p] = "parseSchedulePayload") =>
              LET raw == dataViewToNumbers(dv[p])
                  n == Expected(raw, 1)
              IN  /\ status[p] = "ok"
                  /\ ret[p].count = n
                  /\ Len(ret[p].entries) = n
                  /\ \A i \in 1..n : EntryIsRecord(ret[p].entries[i], raw, 1, i)
        /\ (pc[p] = "done" /\ op[p] = "parseStatsPayload") =>
              LET raw == dataViewToNumbers(dv[p])
                  n == Expected(raw, 2)
              IN  /\ status[p] = "ok"
                  /\ ret[p].window = n
                  /\ Len(ret[p].entries) = n
                  /\ ret[p].total = (IF Len(raw) < 2 THEN 0 ELSE raw[1])
                  /\ \A i \in 1..n : EntryIsRecord(ret[p].entries[i], raw, 2, i)

(* A header that declares 10 entries in front of 3 whole records and a     *)
(* partial one decodes to 3 entries and count 3.                           *)
C17_Witness ==
    \E p \in Procs :
        /\ pc[p] = "done" /\ op[p] = "parseSchedulePayload"
        /\ Len(dv[p]) = 1 + 8 * 3 + 5 /\ dv[p][1] = 10
        /\ ret[p].count = 3 /\ Len(ret[p].entries) = 3
        /\ ret[p].entries[3].intensity2b = dv[p][25] % 4


ByteValued(entries) ==
    \A i \in 1..Len(entries) : \A k \in 1..7 : entries[i].time7[k] \in 0..255

(* C18: schedule round trip.  Whenever writeSchedule has sent a list of N  *)
(* entries with byte-valued time fields (so N is within the write budget), *)
(* decoding the bytes it sent yields count N and the same N entries in the *)
(* same order, each intensity being the low 2 bits of the original one.    *)
C18_ScheduleRoundTrip ==
    \A p \in Procs :
        (op[p] = "writeSchedule" /\ writes[p] >= 1 /\ ByteValued(arg[p])) =>
            LET decoded == parseSchedulePayload(dataViewToNumbers(sent[p]))
                N == Len(arg[p])
            IN  /\ decoded.count = N
                /\ Len(decoded.entries) = N
                /\ \A i \in 1..N :
                      /\ decoded.entries[i].time7 = arg[p][i].time7
                      /\ decoded.entries[i].intensity2b \in 0..3
                      /\ \E hi \in 0..63 :
                            arg[p][i].intensity2b = 4 * hi + decoded.entries[i].intensity2b

(* A list that fills the budget of a negotiated MTU, with intensities      *)
(* above 3, was sent.                                                      *)
C18_Witness ==
    \E p \in Procs :
        /\ op[p] = "writeSchedule" /\ writes[p] = 1
        /\ Len(arg[p]) = 22 /\ arg[p][1].intensity2b = 7
        /\ Len(sent[p]) = 1 + 8 * 22
        /\ Len(arg[p]) = maxEntries(payloadMax(currentPayloadLimit, currentMtu))


LoadRunning == lpc \in {"first", "rest"}

C20_WindowZeroPassedOn ==
    \A p \in Procs :
        (op[p] = "readStatistics" /\ writes[p] = 1 /\ arg[p][2] = 0)
        => sent[p] = <<statsStartB(arg[p][1]), 0>>

(***************************************************************************)
(* C21: for every MTU m >= 23 and every non-zero requested window, each    *)
(* control pair readStatistics writes, the first one and the one of its    *)
(* fallback, has a window w with 1 <= w <= 63 and 2 + 8*w <= m - 1, and a  *)
(* start byte in 0..255.                                                   *)
(***************************************************************************)
mtuInUse == IF currentMtu = Undefined THEN DefaultMtu ELSE currentMtu

FitsOneRead(pair, m) ==
    /\ Len(pair) = 2
    /\ pair[1] \in 0..255
    /\ pair[2] \in 1..63
    /\ 2 + 8 * pair[2] <= m - 1

C21_ControlPairWritten ==
    \A p \in Procs :
        (/\ op'[p] = "readStatistics"
         /\ writes'[p] = writes[p] + 1
         /\ arg'[p][2] # 0
         /\ mtuInUse >= DefaultMtu)
        => FitsOneRead(sent'[p], mtuInUse)

C21_WindowFitsOneRead ==
    /\ [](\A p \in Procs :
            (op[p] = "statsWindow" /\ pc[p] = "done" /\ arg[p][2] # 0 /\ mtuInUse >= DefaultMtu)
            => FitsOneRead(ret[p], mtuInUse))
    /\ [][C21_ControlPairWritten]_vars

C21_Witness ==
    \E p, q \in Procs :
        /\ op[p] = "readStatistics" /\ phase[p] = "fallback" /\ writes[p] = 2
        /\ sent[p] = <<255, 2>>
        /\ op[q] = "statsWindow" /\ pc[q] = "done"
        /\ arg[q] = <<NaN, 64>> /\ ret[q] = <<0, 63>>

(***************************************************************************)
(* C22: once connect has finished negotiating an MTU m >= 23, the write    *)
(* budget of the size checks is max(20, m - 3) and the read budget is      *)
(* max(1, m - 1); a negotiation that fails or is unsupported leaves the    *)
(* budgets of m = 23, 20 and 22; and in every reachable state the write    *)
(* budget is at least 20 and the read budget at least 1.                   *)
(***************************************************************************)
Negotiating == \E p \in Procs : pc[p] \in {"c_mtu1", "c_mtu2"}

writeBudget == payloadMax(currentPayloadLimit, currentMtu)
readBudget == readPayloadMax(currentMtu)

C22_NegotiationFailed ==
    \A p \in Procs :
        (pc[p] = "c_mtu2" /\ pc'[p] = "c_verify" /\ currentMtu' = DefaultMtu)
        => /\ payloadMax(currentPayloadLimit', currentMtu') = 20
           /\ readPayloadMax(currentMtu') = 22

C22_Budgets ==
    /\ [](/\ writeBudget >= 20
          /\ readBudget >= 1
          /\ (~Negotiating /\ mtuInUse >= DefaultMtu)
             => /\ writeBudget = Max(20, mtuInUse - 3)
                /\ readBudget = Max(1, mtuInUse - 1))
    /\ [][C22_NegotiationFailed]_vars

C22_Witness ==
    \E p \in Procs :
        /\ op[p] = "connect" /\ pc[p] = "done" /\ status[p] = "ok"
        /\ connected = dev[p]
        /\ currentMtu = 185 /\ writeBudget = 182 /\ readBudget = 184
        /\ ~Negotiating

(***************************************************************************)
(* C23: a write-size check made while Ready never uses MTU state that an   *)
(* earlier connection negotiated: until the connect of the present         *)
(* connection has set them, the MTU and the payload limit are unset.       *)
(***************************************************************************)
FromEarlierConnection ==
    \E q \in Procs :
        /\ op[q] = "connect" /\ dev[q] = connected
        /\ \/ pc[q] = "c_settle" /\ (currentMtu # Undefined \/ currentPayloadLimit # Undefined)
           \/ pc[q] \in {"c_mtu1", "c_mtu2"} /\ currentPayloadLimit # Undefined

C23_SizeCheck ==
    \A p \in Procs :
        (op[p] = "none" /\ op'[p] = "writeSchedule" /\ connected # NoDevice)
        => ~FromEarlierConnection

C23_MtuStatePerConnection == [][C23_SizeCheck]_vars

(***************************************************************************)
(* C24: every payload written to the time characteristic, by               *)
(* syncTimeFromDate or by syncTimeRaw, is 7 bytes [sec, min, hour, mday,   *)
(* wday, month, year - 1900] with sec and min in 0..59, hour in 0..23,     *)
(* mday in 1..31, month in 0..11 and year in 0..255.                       *)
(***************************************************************************)
TimeFieldsInRange(t) ==
    /\ Len(t) = 7
    /\ t[1] \in 0..59 /\ t[2] \in 0..59 /\ t[3] \in 0..23
    /\ t[4] \in 1..31 /\ t[6] \in 0..11 /\ t[7] \in 0..255

C24_TimePayloadInRange ==
    \A p \in Procs :
        (op[p] \in {"syncTimeRaw", "syncTimeFromDate"} /\ writes[p] > 0)
        => TimeFieldsInRange(sent[p])

(***************************************************************************)
(* C25: while Ready, a device-info field whose radio read fails, with any  *)
(* error, or whose bytes trim to the empty string, takes its fallback      *)
(* string: getDeviceInfo does not fail, the connection state stays as it   *)
(* is and no subscriber is notified.                                       *)
(***************************************************************************)
Blank(v) == \A i \in 1..Len(v) : IsSpace(v[i])

C25_FieldFallsBack(p) ==
    /\ ret'[p] = Append(ret[p], Fallback(field[p]))
    /\ status'[p] # "err"
    /\ connected' = connected
    /\ lastTold' = lastTold
    /\ heard' = heard

C25_TextStep ==
    \A p \in Procs :
        /\ \A e \in RadioErrors :
              (TextReadFail(p, e) /\ connected # NoDevice) => C25_FieldFallsBack(p)
        /\ \A v \in TextValues :
              (TextReadOk(p, v) /\ Blank(v) /\ connected # NoDevice) => C25_FieldFallsBack(p)

C25_TextReadNeverFatal ==
    /\ [][C25_TextStep]_vars
    /\ [](\A p \in Procs :
            (op[p] = "getDeviceInfo" /\ pc[p] = "done" /\ status[p] = "ok")
            => /\ Len(ret[p]) = NumTextFields
               /\ \A i \in 1..NumTextFields : ret[p][i] # <<>>)

C25_Witness ==
    \E p \in Procs :
        /\ op[p] = "getDeviceInfo" /\ pc[p] = "done" /\ status[p] = "ok"
        /\ connected # NoDevice
        /\ ret[p] = [i \in 1..NumTextFields |-> Fallback(i)]
        /\ dv[p] = <<32>>

(***************************************************************************)
(* C26: whatever the advertisements of a scan window and their order, the  *)
(* result has at most one entry per device identifier, one for every       *)
(* identifier with an advertisement that passes the name filter, and the   *)
(* entry's signal strength is the greatest strength among them (none when  *)
(* none carried a strength).                                               *)
(***************************************************************************)
Accepted(res) == res.name # <<>> /\ includes(toUpperCase(res.name), WANT)

Strengths(ads, d) ==
    {ads[k].rssi : k \in {i \in 1..Len(ads) : Accepted(ads[i]) /\ ads[i].id = d /\ ads[i].rssi # Undefined}}

Strongest(ads, d) ==
    IF Strengths(ads, d) = {} THEN Undefined
    ELSE CHOOSE r \in Strengths(ads, d) : \A o \in Strengths(ads, d) : o <= r

MergedByStrength(ads, out) ==
    /\ \A j, k \in 1..Len(out) : out[j].id = out[k].id => j = k
    /\ \A k \in 1..Len(out) :
          /\ \E i \in 1..Len(ads) : Accepted(ads[i]) /\ ads[i].id = out[k].id
          /\ out[k].rssi = Strongest(ads, out[k].id)
    /\ \A i \in 1..Len(ads) : Accepted(ads[i]) => \E k \in 1..Len(out) : out[k].id = ads[i].id

C27_SortedUnknownLast ==
    \A p \in Procs :
        (op[p] = "scanForDevices" /\ pc[p] = "done" /\ status[p] = "ok")
        => \A j, k \in 1..Len(ret[p]) :
              j < k => /\ ret[p][j].rssi = Undefined => ret[p][k].rssi = Undefined
                       /\ (ret[p][j].rssi # Undefined /\ ret[p][k].rssi # Undefined)
                          => ret[p][j].rssi >= ret[p][k].rssi

(***************************************************************************)
(* C28: once another device is the connected one, an event of an earlier   *)
(* session changes nothing: the disconnect notification of the earlier     *)
(* device's link and the late failure of a read or write issued to the     *)
(* earlier device leave the connection state and the subscribers alone,    *)
(* and the retries of a read go to the device of its first attempt.        *)
(***************************************************************************)
C28_SessionKept ==
    /\ connected' = connected
    /\ lastTold' = lastTold
    /\ heard' = heard

C28_StaleEvent ==
    /\ \A d \in Devices :
          (/\ d \in links /\ links' = links \ {d} /\ pc' = pc
           /\ connected \notin {NoDevice, d})
          => C28_SessionKept
    /\ \A p \in Procs :
          (/\ pc[p] \in {"r_wait", "w_wait"} /\ pc'[p] # pc[p]
           /\ connected \notin {NoDevice, id[p]})
          => C28_SessionKept
    /\ \A p \in Procs :
          (pc[p] = "r_backoff" /\ pc'[p] = "r_wait") => id'[p] = id[p]

C28_SessionIsolation == [][C28_StaleEvent]_vars

(***************************************************************************)
(* C29: every operation submitted to the wrapper's queue settles once the  *)
(* core calls it makes have settled.  As a safety property: the job at     *)
(* the head of the queue is always one that is about to start, that waits  *)
(* out its gap, or that awaits core calls still to be made or in progress; *)
(* it never awaits anything else.                                          *)
(***************************************************************************)
C29_HeadJobCanSettle ==
    chain # <<>> =>
        \/ jpc \in {"waiting", "gap"}
        \/ jpc = "fn" /\ (qlaunch # <<>> \/ qcalls # {})

(***************************************************************************)
(* C30: at the moment connect(h) resolves, the connection state is Ready   *)
(* for device h, whatever disconnect notifications arrived during the      *)
(* settle delay, the MTU negotiation and the service verification.         *)
(***************************************************************************)
C30_ConnectResolves ==
    \A p \in Procs :
        (op[p] = "connect" /\ pc[p] # "done" /\ pc'[p] = "done" /\ status'[p] = "ok")
        => connected' = dev[p]

C30_ResolvedMeansReady == [][C30_ConnectResolves]_vars

TypeOK ==
    /\ connected \in Devices \cup {NoDevice}
    /\ links \subseteq Devices
    /\ ncalls \in 0..MaxCalls
    /\ qcalls \subseteq Procs
    /\ jpc \in {"waiting", "fn", "probe", "gap"}
====
